---- MODULE Spec2Model ----
(***************************************************************************)
(* A model of the MCP tool server (src/mcp_server.py) and of the          *)
(* streaming tool-call orchestrator (src/app.py).                         *)
(*                                                                         *)
(* Spec      : the RPC server, its accept loop and its connection handlers *)
(* SpecTurn  : one streaming chat turn of WebServer.stream_chat_response   *)
(* SpecAccumulate : the tool-call accumulator over one provider stream    *)
(* SpecSession    : the session store, the chat route and the clear route  *)
(* SpecClient     : request threads sharing the one MCPClient connection   *)
(* SpecSweep, SpecSweepThreads : the expiry sweep of the session store     *)
(* SpecTurnClosed : a turn whose generator the server closes               *)
(* SpecTurnLive   : a turn under fairness                                  *)
(* SpecClientLive : the shared client under fairness of its threads        *)
(* SpecOffline    : the web server started without the RPC server          *)
(* SpecLoad       : MCPServer.load_tools over a tools directory            *)
(* SpecWire       : one client and its handler thread over the byte stream *)
(* SpecSync       : one turn of the non-streaming path, get_chat_response  *)
(* SpecTurnTools  : a streaming turn for each tools argument of the route  *)
(***************************************************************************)
EXTENDS Integers, Sequences, FiniteSets, TLC

VARIABLES
    tools,      \* MCPServer.tools: the registry, tool name -> descriptor
    loader,     \* the call frame of MCPServer.load_tools and the plugin directory
    running,    \* MCPServer.running
    conn,       \* one record per connection: the handler thread of handle_client
    framesRead, \* number of frames the server has received so far (all connections)
    turn,       \* the frame of one stream_chat_response (or get_chat_response) call
    chat_sessions, \* WebServer.chat_sessions: session id -> session entry
    chats,      \* one record per request thread of the chat route
    clock,      \* datetime.now()
    cleared,    \* the calls of the clear route so far: their number and the last one
    available_tools, \* WebServer.available_tools: the names the RPC server listed
    selected_tools,  \* WebServer.selected_tools
    sweep,      \* the call frame of WebServer.clean_expired_sessions
    mcp         \* the shared MCPClient, its socket and the threads calling it

webVars == <<chat_sessions, chats, clock, cleared, available_tools, selected_tools, sweep>>

vars == <<tools, loader, running, conn, framesRead, turn, webVars, mcp>>

(***************************************************************************)
(* Bounds of the model.                                                    *)
(***************************************************************************)
MaxFrames == 3

Conns == {"c1", "c2"}

\* Python's None, for the optional values that are strings in the model.
None == "None"

(***************************************************************************)
(* Part 1.  The registry and MCPServer.handle_request                      *)
(***************************************************************************)

\* The two plugin callables kept from src/tools: gcd(a, b) of calculator.py,
\* whose call fails unless exactly a and b are bound and whose body raises on
\* values abs() does not accept, and system_info() of system_tools.py, which
\* takes no parameter and always returns.
ToolSignature(name) ==
    IF name = "gcd" THEN {"a", "b"} ELSE {}

\* MCPServer.load_tools: the registry after the load pass over src/tools.
\* function stands for the callable object: the module it was found in and
\* the name it is bound to there.
LoadedTools ==
    [n \in {"gcd", "system_info"} |->
        [name        |-> n,
         description |-> IF n = "gcd" THEN "gcd of two integers" ELSE "system information",
         parameters  |-> ToolSignature(n),
         package     |-> IF n = "gcd" THEN "calculator" ELSE "system_tools",
         file_path   |-> IF n = "gcd" THEN "calculator.py" ELSE "system_tools.py",
         function    |-> <<IF n = "gcd" THEN "calculator" ELSE "system_tools", n>>]]

\* The keyword arguments of an execute_tool request ("parameters"):
\*   mapping = FALSE : a JSON value that is no object (a list, null)
\*   keys            : the names the mapping binds
\*   good            : the values are of the type the callable computes with
ArgShapes ==
    {[mapping |-> FALSE, keys |-> {}, good |-> TRUE]}
    \cup {[mapping |-> TRUE, keys |-> k, good |-> TRUE] : k \in {{}, {"a"}, {"a", "b"}}}
    \cup {[mapping |-> TRUE, keys |-> {"a", "b"}, good |-> FALSE]}

NoArgs == [mapping |-> TRUE, keys |-> {}, good |-> TRUE]

\* tool_func(**tool_params): the outcome of calling a registered callable.
\*   raised = TRUE with the exception message, or the returned value.
CallTool(name, args) ==
    IF ~args.mapping
    THEN [raised |-> TRUE, value |-> "argument after ** must be a mapping"]
    ELSE IF args.keys # ToolSignature(name)
    THEN [raised |-> TRUE, value |-> "unexpected or missing argument"]
    ELSE IF name = "gcd" /\ ~args.good
    THEN [raised |-> TRUE, value |-> "bad operand type for abs()"]
    ELSE [raised |-> FALSE, value |-> name]

\* The frames a recv on a connection can return.
\*   kind "eof"         : b'' (the peer closed)
\*   kind "undecodable" : bytes that are not UTF-8
\*   kind "text"        : decoded text; json tells what json.loads makes of it:
\*        "invalid"   no JSON document
\*        "nonobject" a JSON document that is no object (a list, a number, null)
\*        "object"    an object with the optional members method, params, id
\*   params: "absent", "notdict" (a list, null) or "dict" with the optional
\*   members tool_name (None when absent, "UNHASHABLE" for a list or an object)
\*   and parameters.
Frame(kind, json, method, params, tool_name, args, id) ==
    [kind |-> kind, json |-> json, method |-> method, params |-> params,
     tool_name |-> tool_name, args |-> args, id |-> id]

Ids == {<<>>, <<7>>}

EofFrame == Frame("eof", "invalid", None, "absent", None, NoArgs, <<>>)

UndecodableFrame == Frame("undecodable", "invalid", None, "absent", None, NoArgs, <<>>)

TextFrames ==
    {Frame("text", j, None, "absent", None, NoArgs, <<>>) : j \in {"invalid", "nonobject"}}
    \cup {Frame("text", "object", m, "absent", None, NoArgs, i) :
             m \in {"list_tools", "bogus", "execute_tool"}, i \in Ids}
    \cup {Frame("text", "object", "execute_tool", "notdict", None, NoArgs, i) : i \in Ids}
    \cup {Frame("text", "object", "execute_tool", "dict", n, NoArgs, i) :
             n \in {"nope", "UNHASHABLE", "system_info"}, i \in Ids}
    \cup {Frame("text", "object", "execute_tool", "dict", "gcd", a, i) :
             a \in ArgShapes, i \in Ids}

Frames == {EofFrame, UndecodableFrame} \cup TextFrames

NoFrame == Frame("none", "invalid", None, "absent", None, NoArgs, <<>>)

\* A response envelope.  kind is "result" or "error"; code is 0 for a result.
Response(kind, code, message, listed, id) ==
    [kind |-> kind, code |-> code, message |-> message, listed |-> listed, id |-> id]

\* One element of tools_list: the entry without its callable.
Listed(info) ==
    [name |-> info.name, description |-> info.description,
     parameters |-> info.parameters, package |-> info.package,
     file_path |-> info.file_path]

\* The tools_list of a list_tools result: every descriptor, as plain data.
ToolsList(registry) == {Listed(registry[n]) : n \in DOMAIN registry}

\* The id of the two replies built in the except clauses of handle_request.
ErrorIdOf(request) == <<>>

\* The mutant of ExecuteTool: the exception of the callable is not caught
\* where it is raised, and reaches the outer handler of handle_request.
ExecuteToolUncaught(registry, request) ==
    LET out == CallTool(request.tool_name, request.args) IN
    IF out.raised
    THEN [response |-> Response("error", -32603, <<"internal error", out.value>>, {}, <<>>),
          invoked  |-> <<request.tool_name>>,
          registry |-> registry]
    ELSE [response |-> Response("result", 0, <<"output", out.value>>, {}, request.id),
          invoked  |-> <<request.tool_name>>,
          registry |-> registry]

\* The mutant of ExecuteTool: the exception of the callable is reported with
\* the code of invalid parameters.
ExecuteToolInvalidParams(registry, request) ==
    LET out == CallTool(request.tool_name, request.args) IN
    IF out.raised
    THEN [response |-> Response("error", -32602, <<"tool execution error", out.value>>, {},
                                request.id),
          invoked  |-> <<request.tool_name>>,
          registry |-> registry]
    ELSE [response |-> Response("result", 0, <<"output", out.value>>, {}, request.id),
          invoked  |-> <<request.tool_name>>,
          registry |-> registry]

\* The else branch of the registry lookup: the callable is called inside its
\* own try block.
ExecuteTool(registry, request) ==
    LET out == CallTool(request.tool_name, request.args) IN
    IF out.raised
    THEN [response |-> Response("error", -32603, <<"tool execution error", out.value>>, {},
                                request.id),
          invoked  |-> <<request.tool_name>>,
          registry |-> registry]
    ELSE [response |-> Response("result", 0, <<"output", out.value>>, {}, request.id),
          invoked  |-> <<request.tool_name>>,
          registry |-> registry]

\* The mutant of ToolNotFound: the lookup falls through to the call.
ToolNotFoundFallsThrough(registry, request) ==
    [response |-> Response("error", -32603, <<"tool execution error", "KeyError">>, {},
                           request.id),
     invoked  |-> <<>>,
     registry |-> registry]

\* The mutant of ToolNotFound: the unknown name is entered in the registry
\* with an empty descriptor, as a lookup with a default would.
ToolNotFoundRegisters(registry, request) ==
    [response |-> Response("error", -32602, <<"tool not found", request.tool_name>>, {},
                           request.id),
     invoked  |-> <<>>,
     registry |-> [n \in DOMAIN registry \cup {request.tool_name} |->
                     IF n \in DOMAIN registry THEN registry[n]
                     ELSE [name |-> n, description |-> "", parameters |-> {},
                           package |-> "", file_path |-> "", function |-> <<"", n>>]]]

\* The reply to an execute_tool request whose tool_name is not a key of the
\* registry.
ToolNotFound(registry, request) ==
    [response |-> Response("error", -32602, <<"tool not found", request.tool_name>>, {},
                           request.id),
     invoked  |-> <<>>,
     registry |-> registry]

\* MCPServer.handle_request on decoded text: the response, the callable it
\* invoked (<<>> when none) and self.tools when it returns.
HandleRequest(registry, data) ==
    IF data.json = "invalid"
    THEN \* json.JSONDecodeError
         [response |-> Response("error", -32700, <<"parse error">>, {}, <<>>),
          invoked  |-> <<>>,
          registry |-> registry]
    ELSE IF data.json = "nonobject"
    THEN \* request.get raises AttributeError
         [response |-> Response("error", -32603, <<"internal error", "no attribute get">>, {},
                                ErrorIdOf(data)),
          invoked  |-> <<>>,
          registry |-> registry]
    ELSE IF data.method = "list_tools"
    THEN [response |-> Response("result", 0, <<"tools">>, ToolsList(registry), data.id),
          invoked  |-> <<>>,
          registry |-> registry]
    ELSE IF data.method = "execute_tool"
    THEN IF data.params = "notdict"
         THEN \* params.get raises AttributeError
              [response |-> Response("error", -32603,
                                     <<"internal error", "no attribute get">>, {},
                                     ErrorIdOf(data)),
               invoked  |-> <<>>,
               registry |-> registry]
         ELSE IF data.tool_name = "UNHASHABLE"
         THEN \* tool_name not in self.tools raises TypeError
              [response |-> Response("error", -32603,
                                     <<"internal error", "unhashable type">>, {},
                                     ErrorIdOf(data)),
               invoked  |-> <<>>,
               registry |-> registry]
         ELSE IF data.tool_name \notin DOMAIN registry
         THEN ToolNotFound(registry, data)
         ELSE ExecuteTool(registry, data)
    ELSE [response |-> Response("error", -32601, <<"unknown method", data.method>>, {},
                                data.id),
          invoked  |-> <<>>,
          registry |-> registry]

(***************************************************************************)
(* Part 1b.  MCPServer.load_tools                                          *)
(***************************************************************************)

\* A member of a plugin module as inspect.getmembers yields it: a function
\* bound to name; tagged tells whether it carries the _mcp_tool attribute.
Member(name, tagged, description, parameters) ==
    [name |-> name, tagged |-> tagged, description |-> description,
     parameters |-> parameters]

\* An entry of os.listdir(self.tools_dir).
\*   stem, ext : the file name is stem.ext
\*   dunder    : the file name starts with "__"
\*   loadable  : exec_module returns (FALSE: it raises)
PluginFile(stem, ext, dunder, loadable, members) ==
    [stem |-> stem, ext |-> ext, dunder |-> dunder, loadable |-> loadable,
     members |-> members]

\* The decorator every plugin file defines for itself: a function without
\* the attribute.
Decorator == Member("mcp_tool", FALSE, "", {})

\* calculator.py and system_tools.py of src/tools, with the callables the
\* model keeps.
CalculatorFile ==
    PluginFile("calculator", "py", FALSE, TRUE,
               {Decorator, Member("gcd", TRUE, "gcd of two integers", {"a", "b"})})

SystemToolsFile ==
    PluginFile("system_tools", "py", FALSE, TRUE,
               {Decorator, Member("system_info", TRUE, "system information", {})})

SrcTools == {CalculatorFile, SystemToolsFile}

\* Files a tools directory may hold besides: a second module that tags a
\* function named gcd, a module whose import raises, a package marker and
\* a file that is no module.
PluginFiles ==
    SrcTools
    \cup {PluginFile("extra", "py", FALSE, TRUE,
                     {Decorator, Member("gcd", TRUE, "another gcd", {"x", "y"})}),
          PluginFile("broken", "py", FALSE, FALSE,
                     {Member("lost", TRUE, "never imported", {})}),
          PluginFile("__init__", "py", TRUE, TRUE,
                     {Member("hidden", TRUE, "package marker", {})}),
          PluginFile("notes", "txt", FALSE, TRUE, {})}

\* filename.endswith('.py') and not filename.startswith('__')
Eligible(file) == file.ext = "py" /\ ~file.dunder

\* The mutant of IsTool: every function of the module is taken.
IsToolUntagged(member) == TRUE

\* inspect.isfunction(obj) and hasattr(obj, '_mcp_tool')
IsTool(member) == member.tagged

\* The tool_info built for a tagged member of file.
ToolInfo(file, member) ==
    [name |-> member.name, description |-> member.description,
     parameters |-> member.parameters, package |-> file.stem,
     file_path |-> file.stem \o "." \o file.ext,
     function |-> <<file.stem, member.name>>]

\* The mutant of RegisterMembers: a name the registry holds is kept
\* (setdefault in place of the assignment).
RegisterMembersFirstWins(registry, file) ==
    LET found == {m \in file.members : m.tagged}
        names == {m.name : m \in found}
    IN  [n \in DOMAIN registry \cup names |->
            IF n \in DOMAIN registry
            THEN registry[n]
            ELSE [name |-> n,
                  description |-> (CHOOSE m \in found : m.name = n).description,
                  parameters |-> (CHOOSE m \in found : m.name = n).parameters,
                  package |-> file.stem,
                  file_path |-> file.stem \o "." \o file.ext,
                  function |-> <<file.stem, n>>]]

\* The loop over inspect.getmembers(module): self.tools[name] = tool_info
\* for every tagged function, over whatever the registry held under name.
RegisterMembers(registry, file) ==
    LET found == {m \in file.members : IsTool(m)}
        names == {m.name : m \in found}
    IN  [n \in DOMAIN registry \cup names |->
            IF n \in names
            THEN ToolInfo(file, CHOOSE m \in found : m.name = n)
            ELSE registry[n]]

\* The mutant of LoadFile: the except clause starts the registry afresh.
LoadFileResets(registry, file) ==
    IF ~(file.ext = "py" /\ ~file.dunder) THEN registry
    ELSE IF ~file.loadable THEN [n \in {} |-> registry[n]]
    ELSE [n \in DOMAIN registry \cup {m.name : m \in {x \in file.members : x.tagged}} |->
             IF \E m \in file.members : m.tagged /\ m.name = n
             THEN [name |-> n,
                   description |-> (CHOOSE m \in file.members : m.tagged /\ m.name = n).description,
                   parameters |-> (CHOOSE m \in file.members : m.tagged /\ m.name = n).parameters,
                   package |-> file.stem,
                   file_path |-> file.stem \o "." \o file.ext,
                   function |-> <<file.stem, n>>]
             ELSE registry[n]]

\* One iteration of the loop over os.listdir.
LoadFile(registry, file) ==
    IF ~Eligible(file) THEN registry
    ELSE IF ~file.loadable THEN registry   \* the except clause prints and goes on
    ELSE RegisterMembers(registry, file)

\* self.tools = {}
NoTools == [n \in {} |-> ToolInfo(CalculatorFile, Decorator)]

\* The call frame of load_tools.
\*   pc        : "start", "loop", "done"
\*   exists    : os.path.exists(self.tools_dir)
\*   directory : the files of the tools directory
\*   pending   : the entries of os.listdir the loop has not reached
\*   order     : the entries it has been through, in the order of os.listdir
\*   listed    : <<tools_list>> of the list_tools request answered after it
NewLoader(exists, directory) ==
    [pc |-> "start", exists |-> exists, directory |-> directory, pending |-> {},
     order |-> <<>>, listed |-> <<>>]

\* load_tools has returned from its pass over src/tools.
InitLoader ==
    loader = [NewLoader(TRUE, SrcTools) EXCEPT !.pc = "done"]

(***************************************************************************)
(* Part 2.  WebServer.stream_chat_response: the accumulators               *)
(***************************************************************************)

\* Deltas the provider delivers in one turn, model requests of one turn.
MaxDeltas == 4

MaxRounds == 2

\* A chat message.  tool_call_id is "" and tool_calls <<>> where the message
\* has no such key.
Msg(role, content, tool_call_id, tool_calls) ==
    [role |-> role, content |-> content, tool_call_id |-> tool_call_id,
     tool_calls |-> tool_calls]

\* One entry of the turn's trace: an event the generator yields (type
\* "content", "tool_calls", "tool_execution", "tool_result", "end", "error"),
\* a request to the provider ("model_request"), a call of json.loads on an
\* arguments string ("json_loads"), a call of MCPClient.execute_tool and
\* its return ("rpc_request", "rpc_return"), or the close() of the generator
\* ("close").
\* round is the model round trip and call the loop variable i at that point
\* (-1 outside the execution loop).
Entry(type, round, call, name, id, text) ==
    [type |-> type, round |-> round, call |-> call, name |-> name, id |-> id,
     text |-> text]

\* A tool-call fragment of a delta: tool_call.index, tool_call.id,
\* tool_call.function.name, tool_call.function.arguments ("" for None or "").
Fragment(index, id, name, arguments) ==
    [index |-> index, id |-> id, name |-> name, arguments |-> arguments]

\* A chunk of the stream.  usage = TRUE: a chunk without choices.  reasoning
\* and content are <<>> for None and <<text>> otherwise; tool_calls is the
\* list delta.tool_calls (<<>> for None).
Delta(usage, reasoning, content, tool_calls) ==
    [usage |-> usage, reasoning |-> reasoning, content |-> content,
     tool_calls |-> tool_calls]

\* A record of tool_info; a key that was never set reads "".
EmptyRecord == [id |-> "", name |-> "", arguments |-> ""]

\* while len(tool_info) <= index: tool_info.append({})
Extend(tool_info, index) ==
    IF Len(tool_info) <= index
    THEN tool_info \o [k \in 1..(index + 1 - Len(tool_info)) |-> EmptyRecord]
    ELSE tool_info

\* The body of `for tool_call in delta.tool_calls`: one fragment is added to
\* the record of its index, field by field, skipping the empty ones.
AddFragment(tool_info, f) ==
    LET ext == Extend(tool_info, f.index)
        k   == f.index + 1
    IN  [ext EXCEPT ![k].id        = IF f.id # "" THEN @ \o f.id ELSE @,
                    ![k].name      = IF f.name # "" THEN @ \o f.name ELSE @,
                    ![k].arguments = IF f.arguments # "" THEN @ \o f.arguments ELSE @]

RECURSIVE AddFragments(_, _)
\* for tool_call in delta.tool_calls: ...
AddFragments(tool_info, fs) ==
    IF fs = <<>> THEN tool_info
    ELSE AddFragments(AddFragment(tool_info, Head(fs)), Tail(fs))

\* The generator frame at the start of stream_chat_response, called by chat()
\* for a fresh session: messages is [system, user] and the user message is
\* already in the session's history.  tools is the tools argument, <<>> for
\* None: here the definitions of every listed tool.  tool_name and
\* tool_call_id are <<>>
\* while the local variable is unbound and <<value>> once it is assigned.
NewTurn ==
    [pc                |-> "start",
     tools             |-> <<DOMAIN LoadedTools>>,
     round             |-> 0,
     deltas            |-> 0,
     request_id        |-> 0,
     reasoning_content |-> "",
     answer_content    |-> "",
     is_answering      |-> FALSE,
     tool_info         |-> <<>>,
     i                 |-> 0,
     tool_name         |-> <<>>,
     tool_call_id      |-> <<>>,
     tool_args         |-> NoArgs,
     am                |-> 0,
     localMessages     |-> <<Msg("system", "prompt", "", <<>>), Msg("user", "hi", "", <<>>)>>,
     session           |-> <<Msg("user", "hi", "", <<>>)>>,
     trace             |-> <<>>,
     delivered         |-> <<>>,
     deliveredContent  |-> <<>>]

\* yield: an event is appended to what the caller received.
Emit(t, e) == [t EXCEPT !.trace = Append(@, e)]

\* The body of `for chunk in stream` for one chunk: the routing of the delta
\* and the accumulation of what it carries.
ProcessDelta(t, d) ==
    IF d.usage
    THEN t
    ELSE IF d.reasoning # <<>>
    THEN Emit([t EXCEPT !.reasoning_content = @ \o d.reasoning[1]],
              Entry("content", t.round, -1, "", "", d.reasoning[1]))
    ELSE LET t1 == IF ~t.is_answering
                   THEN Emit([t EXCEPT !.is_answering = TRUE],
                             Entry("content", t.round, -1, "", "", "== answer =="))
                   ELSE t
             t2 == IF d.content # <<>>
                   THEN Emit([t1 EXCEPT !.answer_content = @ \o d.content[1]],
                             Entry("content", t.round, -1, "", "", d.content[1]))
                   ELSE t1
         IN  [t2 EXCEPT !.tool_info = AddFragments(@, d.tool_calls)]

\* The text of the arguments of a gcd call, and its two halves.
ArgsText == "{\"a\":4,\"b\":6}"

ArgsHead == "{\"a\":4,"

ArgsTail == "\"b\":6}"

\* json.loads(tool["arguments"]): the two documents the model knows, any
\* other text raises JSONDecodeError.
JsonLoads(text) ==
    IF text = "{}"
    THEN [ok |-> TRUE, args |-> [mapping |-> TRUE, keys |-> {}, good |-> TRUE]]
    ELSE IF text = ArgsText
    THEN [ok |-> TRUE, args |-> [mapping |-> TRUE, keys |-> {"a", "b"}, good |-> TRUE]]
    ELSE [ok |-> FALSE, args |-> NoArgs]

(***************************************************************************)
(* Part 2b.  The web server's stores before any request                    *)
(***************************************************************************)

\* The request threads of the chat route and the threads that call the
\* shared MCPClient.
Reqs == {"r1", "r2"}

Threads == {"t1", "t2"}

\* An entry of chat_sessions.
Session(messages, created_at, last_activity) ==
    [messages |-> messages, created_at |-> created_at, last_activity |-> last_activity]

\* self.chat_sessions = {}
NoSessions == [s \in {} |-> Session(<<>>, 0, 0)]

\* A request thread of the chat route that has not received its request.
\*   pc         : "new", "rejected" (answered with status 400), "turn" (the
\*                response is streamed), "done"
\*   arg        : data.get('session_id'), <<>> when absent
\*   seen       : the entry found under arg before get_or_create_session
\*   got        : the entry returned by get_or_create_session
\*   at         : the clock at that call
\*   tools      : the tools argument of stream_chat_response, <<>> for None
\*   frame      : the generator frame of stream_chat_response
NewChat ==
    [pc |-> "new", arg |-> <<>>, message |-> "", session_id |-> "", seen |-> <<>>,
     got |-> Session(<<>>, 0, 0), at |-> 0, deltas |-> 0, tools |-> <<>>,
     frame |-> [NewTurn EXCEPT !.pc = "idle"]]

\* The call frame of clean_expired_sessions.
\*   pc      : "idle", "scan" (in the for loop), "delete" (in the loop of
\*             del), "done" (returned), "raised"
\*   now     : current_time
\*   size    : the number of entries the dict held when the iteration began
\*   visited : the keys the for loop has been through
\*   expired_sessions : the list it collects
\*   n       : the calls so far
\*   before, after : chat_sessions when the call began and when it returned
\*   idle    : the call began in the state the call before it had left
NewSweep ==
    [pc |-> "idle", now |-> 0, size |-> 0, visited |-> {}, expired_sessions |-> {},
     n |-> 0, before |-> NoSessions, after |-> NoSessions, idle |-> FALSE]

InitWeb ==
    /\ chat_sessions = NoSessions
    /\ chats = [r \in Reqs |-> NewChat]
    /\ clock = 1
    /\ cleared = [n |-> 0, arg |-> <<>>, found |-> FALSE, at |-> 0]
    /\ available_tools = DOMAIN LoadedTools
    /\ selected_tools = {}
    /\ sweep = NewSweep

\* A thread of the web server inside MCPClient.send_request.
\*   pc   : "idle", "incr" (request_id read, not yet written back), "build",
\*          "send", "recv"
\*   tmp  : the value of self.request_id the thread read
\*   id   : the id of the request it built
\*   tool : the tool it asks for
\*   got  : the response its recv returned, <<>> before
NewThread == [pc |-> "idle", tmp |-> 0, id |-> 0, tool |-> "", calls |-> 0, got |-> <<>>]

\* MCPClient after connect(): whether connect() returned True, request_id,
\* the requests written to the socket
\* that the server has not read, and the responses it has not given to a recv.
\* The TCP connection between MCPClient and its handler thread, as bytes.
\*   up, down : the bytes written to the socket that the other side has not
\*              read, client to server and server to client; a sequence of
\*              pieces, each the bytes from..to of an envelope of `of` bytes
\*   pc       : the client is "idle", in "recv", or send_request "raised"
\*   calls    : the calls of send_request so far
\*   handled  : the bytes the last recv of handle_client returned
\*   got      : the bytes the last recv of send_request returned
\*   returned : <<the response send_request returned>>, <<>> when it raised
NewWire ==
    [up |-> <<>>, down |-> <<>>, pc |-> "idle", calls |-> 0, handled |-> <<>>,
     got |-> <<>>, returned |-> <<>>]

NewClient ==
    [connected |-> TRUE, request_id |-> 0, outbound |-> <<>>, inbound |-> <<>>,
     thread |-> [t \in Threads |-> NewThread], wire |-> NewWire]

InitClient == mcp = NewClient

(***************************************************************************)
(* Part 3.  MCPServer.start and MCPServer.handle_client                    *)
(***************************************************************************)

\* A connection: pc is the position of its handler thread,
\*   "unconnected" : not accepted yet
\*   "loop"        : at `while self.running`
\*   "recv"        : blocked in client_socket.recv
\*   "closed"      : after the finally clause
\* why tells which path closed it ("eof", "decode", "send", "stop"; "" while
\* it is open).  req is the last frame recv returned, resp the response sent
\* for it (<<>> when none was sent), invoked the callable called for it, prev
\* the error code of the response sent before resp (0 for a result, 1 when
\* there was none), reads and writes count the frames received and the
\* responses sent.
NewConn ==
    [pc |-> "unconnected", why |-> "", req |-> NoFrame, resp |-> <<>>, invoked |-> <<>>,
     prev |-> 1, reads |-> 0, writes |-> 0]

\* The error code of the last response sent on a connection.
LastCode(k) == IF k.resp = <<>> THEN k.prev ELSE k.resp[1].code

\* The state of start() once load_tools has run and the socket listens.
Init ==
    /\ tools = LoadedTools
    /\ InitLoader
    /\ running = TRUE
    /\ conn = [c \in Conns |-> NewConn]
    /\ framesRead = 0
    /\ turn = [NewTurn EXCEPT !.pc = "idle"]
    /\ InitWeb
    /\ InitClient

\* start(): accept() returns a connection and a handler thread is started.
Accept(c) ==
    /\ running
    /\ conn[c].pc = "unconnected"
    /\ conn' = [conn EXCEPT ![c].pc = "loop"]
    /\ UNCHANGED <<tools, loader, running, framesRead, turn, webVars, mcp>>

\* handle_client: the test of `while self.running`.
HandleClientLoop(c) ==
    /\ conn[c].pc = "loop"
    /\ conn' = [conn EXCEPT ![c].pc = IF running THEN "recv" ELSE "closed",
                            ![c].why = IF running THEN "" ELSE "stop"]
    /\ UNCHANGED <<tools, loader, running, framesRead, turn, webVars, mcp>>

\* handle_client: recv returns b'' and the loop breaks.
HandleClientEof(c) ==
    /\ conn[c].pc = "recv"
    /\ conn' = [conn EXCEPT ![c].pc = "closed", ![c].why = "eof", ![c].req = EofFrame,
                            ![c].prev = LastCode(conn[c]),
                            ![c].resp = <<>>, ![c].invoked = <<>>]
    /\ UNCHANGED <<tools, loader, running, framesRead, turn, webVars, mcp>>

\* handle_client: recv returns bytes whose decode raises; the except clause
\* of handle_client logs it and the finally clause closes the socket.
HandleClientUndecodable(c) ==
    /\ conn[c].pc = "recv"
    /\ framesRead < MaxFrames
    /\ framesRead' = framesRead + 1
    /\ conn' = [conn EXCEPT ![c].pc = "closed", ![c].why = "decode",
                            ![c].req = UndecodableFrame,
                            ![c].prev = LastCode(conn[c]),
                            ![c].resp = <<>>, ![c].invoked = <<>>,
                            ![c].reads = @ + 1]
    /\ UNCHANGED <<tools, loader, running, turn, webVars, mcp>>

\* The mutant of SendResponse: the response is sent twice.
SendResponseTwice(k, r) ==
    [k EXCEPT !.pc = "loop", !.resp = <<r>>, !.writes = @ + 2]

\* client_socket.send(response): the connection record after the send.
SendResponse(k, r) ==
    [k EXCEPT !.pc = "loop", !.resp = <<r>>, !.writes = @ + 1]

\* handle_client: one pass of the loop body on decodable text.
HandleClientRequest(c) ==
    /\ conn[c].pc = "recv"
    /\ framesRead < MaxFrames
    /\ \E data \in TextFrames :
          LET h    == HandleRequest(tools, data)
              read == [conn[c] EXCEPT !.req = data, !.resp = <<>>,
                                      !.prev = LastCode(conn[c]),
                                      !.invoked = h.invoked, !.reads = @ + 1]
          IN  /\ conn' = [conn EXCEPT ![c] = SendResponse(read, h.response)]
              /\ tools' = h.registry
    /\ framesRead' = framesRead + 1
    /\ UNCHANGED <<loader, running, turn, webVars, mcp>>

\* handle_client: the send raises (the peer is gone); no response is written.
HandleClientSendFails(c) ==
    /\ conn[c].pc = "recv"
    /\ framesRead < MaxFrames
    /\ \E data \in TextFrames :
          LET h == HandleRequest(tools, data) IN
          /\ conn' = [conn EXCEPT ![c].pc = "closed", ![c].why = "send",
                                  ![c].req = data, ![c].resp = <<>>,
                                  ![c].prev = LastCode(conn[c]),
                                  ![c].invoked = h.invoked, ![c].reads = @ + 1]
          /\ tools' = h.registry
    /\ framesRead' = framesRead + 1
    /\ UNCHANGED <<loader, running, turn, webVars, mcp>>

\* stop(): the accept loop ends (KeyboardInterrupt in start).
Stop ==
    /\ running
    /\ running' = FALSE
    /\ UNCHANGED <<tools, loader, conn, framesRead, turn, webVars, mcp>>

Next ==
    \/ \E c \in Conns : Accept(c)
    \/ \E c \in Conns : HandleClientLoop(c)
    \/ \E c \in Conns : HandleClientEof(c)
    \/ \E c \in Conns : HandleClientUndecodable(c)
    \/ \E c \in Conns : HandleClientRequest(c)
    \/ \E c \in Conns : HandleClientSendFails(c)
    \/ Stop

Spec == Init /\ [][Next]_vars

(***************************************************************************)
(* Claims about the RPC server, checked under Spec.                        *)
(***************************************************************************)

\* A response was sent for the last frame read on connection record k.
Answered(k) == k.resp # <<>>

\* The handler of k is open, or it ended only because the server was stopped.
StillServed(k) == k.why \in {"", "stop"}

\* The last frame read is a request envelope: an object.
IsEnvelope(req) == req.kind = "text" /\ req.json = "object"

\* The last frame read is an execute_tool request with a params object.
IsExecute(req) ==
    IsEnvelope(req) /\ req.method = "execute_tool" /\ req.params # "notdict"

\* C1: on every connection, the id of each response the server sends equals
\* the id of the request it answers, whatever branch of handle_request built
\* the response.
C1_ResponseIdIsRequestId ==
    \A c \in Conns :
        (IsEnvelope(conn[c].req) /\ Answered(conn[c]))
            => conn[c].resp[1].id = conn[c].req.id

\* C2: on each connection the handler sends exactly one response for each
\* request it reads, in the order read: while the connection is open every
\* frame read has been answered, at most the last frame read on a connection
\* that ended is unanswered, and the response sent last is the one
\* handle_request built for the frame read last.
C2_OneResponsePerRequestInOrder ==
    \A c \in Conns :
        /\ conn[c].writes <= conn[c].reads
        /\ conn[c].reads <= conn[c].writes + 1
        /\ conn[c].pc \in {"loop", "recv"} => conn[c].writes = conn[c].reads
        /\ Answered(conn[c]) =>
              /\ conn[c].writes = conn[c].reads
              /\ conn[c].resp[1] = HandleRequest(tools, conn[c].req).response
        /\ conn[c].writes < conn[c].reads =>
              conn[c].pc = "closed" /\ conn[c].why \in {"decode", "send"}

\* C2's case: two requests were read and answered on one open connection.
C2_Witness ==
    \E c \in Conns :
        conn[c].pc = "loop" /\ conn[c].reads >= 2 /\ conn[c].writes = conn[c].reads

\* A frame that is no well-formed JSON request envelope.
Malformed(req) ==
    \/ req.kind = "undecodable"
    \/ req.kind = "text" /\ req.json \in {"invalid", "nonobject"}

\* A well-formed request the server answers with a result.
Normal(req) ==
    /\ IsEnvelope(req)
    /\ \/ req.method = "list_tools"
       \/ /\ IsExecute(req)
          /\ req.tool_name \in DOMAIN LoadedTools
          /\ ~CallTool(req.tool_name, req.args).raised

\* C3: every malformed frame is answered with a ParseError response (code
\* -32700) and leaves the connection open, and a well-formed request that
\* follows a ParseError on the connection is answered normally.  (A frame
\* whose response could not be sent because the peer was gone is left out.)
C3_MalformedFrameGetsParseError ==
    \A c \in Conns :
        /\ (Malformed(conn[c].req) /\ conn[c].why # "send") =>
              /\ Answered(conn[c])
              /\ conn[c].resp[1].code = -32700
              /\ StillServed(conn[c])
        /\ (conn[c].prev = -32700 /\ Normal(conn[c].req) /\ conn[c].why # "send") =>
              /\ Answered(conn[c])
              /\ conn[c].resp[1].kind = "result"

\* An execute_tool request that names a tool the registry does not hold
\* (tool_name absent included: it is looked up as None).
NamesUnknownTool(req) ==
    /\ IsExecute(req)
    /\ req.tool_name # "UNHASHABLE"
    /\ req.tool_name \notin DOMAIN LoadedTools

\* C4: an execute_tool request that names a tool that is not in the registry
\* is answered with error code -32602, no callable is invoked, the registry
\* stays what load_tools made it, the connection stays open, and a valid call
\* that follows it on the connection gets its result.
C4_UnknownToolRejected ==
    \A c \in Conns :
        /\ (NamesUnknownTool(conn[c].req) /\ conn[c].why # "send") =>
              /\ Answered(conn[c])
              /\ conn[c].resp[1].kind = "error"
              /\ conn[c].resp[1].code = -32602
              /\ conn[c].invoked = <<>>
              /\ tools = LoadedTools
              /\ StillServed(conn[c])
        /\ (conn[c].prev = -32602 /\ Normal(conn[c].req) /\ conn[c].why # "send") =>
              /\ Answered(conn[c])
              /\ conn[c].resp[1].kind = "result"
              /\ conn[c].resp[1].id = conn[c].req.id

\* C4's case: a valid call was answered with its result on a connection whose
\* previous response was the -32602 of an unknown tool.
C4_Witness ==
    \E c \in Conns :
        /\ conn[c].prev = -32602
        /\ IsExecute(conn[c].req)
        /\ conn[c].req.tool_name = "gcd"
        /\ Answered(conn[c])
        /\ conn[c].resp[1].kind = "result"

\* An execute_tool request for a registered tool whose callable raises.
ToolRaises(req) ==
    /\ IsExecute(req)
    /\ req.tool_name \in DOMAIN LoadedTools
    /\ CallTool(req.tool_name, req.args).raised

\* C5: an exception raised by a tool callable (a call whose arguments do not
\* match the callable's parameters included) becomes an error response with
\* code -32603 that carries the exception message and the request's id; the
\* callable was invoked, the connection stays open and goes on answering, and
\* the step that handles the request never stops the accept loop.
C5_ToolExceptionContained ==
    /\ [](\A c \in Conns :
            /\ (ToolRaises(conn[c].req) /\ conn[c].why # "send") =>
                  /\ Answered(conn[c])
                  /\ conn[c].resp[1] =
                        Response("error", -32603,
                                 <<"tool execution error",
                                   CallTool(conn[c].req.tool_name, conn[c].req.args).value>>,
                                 {}, conn[c].req.id)
                  /\ conn[c].invoked = <<conn[c].req.tool_name>>
                  /\ StillServed(conn[c])
            /\ (conn[c].prev = -32603 /\ Normal(conn[c].req) /\ conn[c].why # "send") =>
                  /\ Answered(conn[c])
                  /\ conn[c].resp[1].kind = "result")
    /\ [][(\E c \in Conns : conn'[c].reads # conn[c].reads) => running' = running]_vars

\* C5's case: a gcd call with a missing argument was answered on a connection
\* that is still open.
C5_Witness ==
    \E c \in Conns :
        /\ IsExecute(conn[c].req)
        /\ conn[c].req.tool_name = "gcd"
        /\ conn[c].req.args.mapping
        /\ conn[c].req.args.keys = {"a"}
        /\ Answered(conn[c])
        /\ conn[c].resp[1].code = -32603
        /\ conn[c].resp[1].id = <<7>>
        /\ conn[c].pc \in {"loop", "recv"}

(***************************************************************************)
(* Part 4.  WebServer.stream_chat_response: one streaming turn             *)
(***************************************************************************)

\* The tool-call fragments the provider sends in the turns explored: whole
\* calls of gcd at index 0 (id "x") and 1 (id "y"), calls whose arguments
\* come in two halves, a call of gcd without its arguments ("{}"), a call of
\* a tool that does not exist, and a call with no arguments text at all.
TurnFragments ==
    {Fragment(k, IF k = 0 THEN "x" ELSE "y", "gcd", a) :
        k \in {0, 1}, a \in {ArgsText, ArgsHead}}
    \cup {Fragment(k, "", "", ArgsTail) : k \in {0, 1}}
    \cup {Fragment(0, "x", "gcd", "{}"),
          Fragment(1, "y", "nope", "{}"),
          Fragment(0, "x", "gcd", "")}

\* The chunks of the streams explored: a usage chunk, reasoning text, answer
\* text, one tool-call fragment, and a delta that carries reasoning text
\* together with a tool-call fragment.
TurnDeltas ==
    {Delta(TRUE, <<>>, <<>>, <<>>),
     Delta(FALSE, <<"r">>, <<>>, <<>>),
     Delta(FALSE, <<>>, <<"a">>, <<>>),
     Delta(FALSE, <<"r">>, <<>>, <<Fragment(0, "x", "gcd", ArgsText)>>)}
    \cup {Delta(FALSE, <<>>, <<>>, <<f>>) : f \in TurnFragments}

\* The mutant of Fail for the terminal event: the turn ends without an event.
FailSilently(t, call, message) == [t EXCEPT !.pc = "done"]

\* The mutant of Fail for the history: the failure empties the session's
\* messages.
FailRollsBack(t, call, message) ==
    [Emit(t, Entry("error", t.round, call, "", "", message))
     EXCEPT !.pc = "done", !.session = <<>>]

\* The outer except clause: one error event ends the turn.  call is the loop
\* variable i when the exception arose inside the execution loop.
Fail(t, call, message) ==
    [Emit(t, Entry("error", t.round, call, "", "", message)) EXCEPT !.pc = "done"]

\* A record of tool_info holds the three keys tool["id"], tool["name"] and
\* tool["arguments"].
HasKeys(tool) == tool.id # "" /\ tool.name # "" /\ tool.arguments # ""

\* The mutant of AnnounceBatch: nothing is yielded before the execution loop.
AnnounceBatchSilent(t) == t

\* yield of the tool_calls event that announces the batch.
AnnounceBatch(t) == Emit(t, Entry("tool_calls", t.round, -1, "", "", ""))

\* The mutant of BeginBatch: a key a record lacks reads as "" and the batch
\* is announced and executed.
BeginBatchUnchecked(t) ==
    [AnnounceBatch([t EXCEPT !.localMessages =
                       Append(@, Msg("assistant",
                                     IF t.answer_content = "" THEN t.reasoning_content
                                     ELSE t.answer_content, "", <<>>)),
                             !.am = Len(t.localMessages) + 1])
     EXCEPT !.pc = "exec", !.i = 0]

\* The head of `while len(tool_info) > 0`: the assistant message is appended
\* to localMessages, tool_calls_for_frontend is built (KeyError when a record
\* lacks a key) and announced.
BeginBatch(t) ==
    LET content == IF t.answer_content = "" THEN t.reasoning_content
                   ELSE t.answer_content
        t1 == [t EXCEPT !.localMessages = Append(@, Msg("assistant", content, "", <<>>)),
                        !.am = Len(t.localMessages) + 1]
    IN  IF \E k \in 1..Len(t.tool_info) : ~HasKeys(t.tool_info[k])
        THEN Fail(t1, -1, "KeyError")
        ELSE [AnnounceBatch(t1) EXCEPT !.pc = "exec", !.i = 0]

\* The end of one pass of `for i in range(len(tool_info))`.
AdvanceCall(t) ==
    [t EXCEPT !.i = @ + 1,
              !.pc = IF t.i + 1 < Len(t.tool_info) THEN "exec" ELSE "followup"]

\* The inner except clause: the failure is reported as the result of
\* tool_name / tool_call_id, whatever these local variables hold; reading
\* them while they are unbound raises UnboundLocalError, which leaves the
\* loop for the outer except clause.
CallFailed(t, message) ==
    IF t.tool_name = <<>> \/ t.tool_call_id = <<>>
    THEN Fail(t, t.i, "UnboundLocalError")
    ELSE LET error_msg == "tool execution error: " \o message
             t1 == Emit(t, Entry("tool_result", t.round, t.i, t.tool_name[1],
                                 t.tool_call_id[1], error_msg))
         IN  AdvanceCall([t1 EXCEPT !.localMessages =
                             Append(@, Msg("tool", error_msg, t.tool_call_id[1], <<>>))])

\* The try block up to the yield of tool_execution: the arguments are parsed,
\* then tool_name and tool_call_id are assigned.
ParseCall(t0) ==
    LET tool   == t0.tool_info[t0.i + 1]
        parsed == JsonLoads(tool.arguments)
        t      == Emit(t0, Entry("json_loads", t0.round, t0.i, "", "", tool.arguments))
    IN  IF ~parsed.ok
        THEN CallFailed(t, "JSONDecodeError")
        ELSE [Emit([t EXCEPT !.tool_args = parsed.args,
                             !.tool_name = <<tool.name>>,
                             !.tool_call_id = <<tool.id>>],
                   Entry("tool_execution", t.round, t.i, tool.name, tool.id, ""))
              EXCEPT !.pc = "rpc"]

\* MCPClient.execute_tool over MCPClient.send_request: the request frame and
\* what the server answers to it.
ClientExecuteTool(registry, t) ==
    HandleRequest(registry,
                  Frame("text", "object", "execute_tool", "dict", t.tool_name[1],
                        t.tool_args, <<t.request_id + 1>>)).response

\* The rest of the try block: the call of execute_tool returned `response`
\* (raised = FALSE) or raised in the transport.  An error response is raised
\* as an exception by MCPClient.execute_tool.
FinishCall(t, raised, response) ==
    LET tool == t.tool_info[t.i + 1]
        t1   == Emit([t EXCEPT !.request_id = @ + 1],
                     Entry("rpc_request", t.round, t.i, t.tool_name[1], "", ""))
    IN  IF raised
        THEN CallFailed(Emit(t1, Entry("rpc_return", t.round, t.i, "", "", "raised")),
                        "transport error")
        ELSE IF response.kind = "error"
        THEN CallFailed(Emit(t1, Entry("rpc_return", t.round, t.i, "", "", "error")),
                        response.message[1])
        ELSE LET t2 == Emit(Emit(t1, Entry("rpc_return", t.round, t.i, "", "", "result")),
                            Entry("tool_result", t.round, t.i, t.tool_name[1],
                                  t.tool_call_id[1], response.message[2]))
                 lm == [t2.localMessages EXCEPT ![t.am].tool_calls =
                           Append(@, [id |-> t.tool_call_id[1], name |-> tool.name,
                                      arguments |-> tool.arguments])]
             IN  AdvanceCall([t2 EXCEPT !.localMessages =
                                 Append(lm, Msg("tool", response.message[2],
                                                t.tool_call_id[1], <<>>))])

\* The statements between the execution loop and the next request.
ResetAccumulators(t) ==
    [t EXCEPT !.reasoning_content = "", !.answer_content = "",
              !.tool_info = <<>>, !.is_answering = FALSE]

\* openai_client.chat.completions.create(...): a request to the provider.
RequestModel(t) ==
    Emit([t EXCEPT !.round = @ + 1], Entry("model_request", t.round + 1, -1, "", "", ""))

\* The request was accepted: the header is yielded and the stream is read.
OpenStream(t) ==
    [Emit(RequestModel(t), Entry("content", t.round + 1, -1, "", "", "== reasoning =="))
     EXCEPT !.pc = "stream"]

\* final_content = answer_content if answer_content else reasoning_content
FinalContent(t) ==
    IF t.answer_content # "" THEN t.answer_content ELSE t.reasoning_content

\* The mutant of FinishTurn: `end` is yielded and nothing is stored.
FinishTurnNoSave(t) ==
    [Emit(t, Entry("end", t.round, -1, "", "", "")) EXCEPT !.pc = "done"]

\* After the loops: the assistant message is stored and `end` is yielded.
FinishTurn(t) ==
    [Emit([t EXCEPT !.session = Append(@, Msg("assistant", FinalContent(t), "", <<>>))],
          Entry("end", t.round, -1, "", "", ""))
     EXCEPT !.pc = "done"]

InitTurn ==
    /\ tools = LoadedTools
    /\ InitLoader
    /\ running = TRUE
    /\ conn = [c \in Conns |-> NewConn]
    /\ framesRead = 0
    /\ turn = NewTurn
    /\ InitWeb
    /\ InitClient

\* The first request to the provider.
TurnStart ==
    /\ turn.pc = "start"
    /\ turn' = OpenStream(turn)
    /\ UNCHANGED <<tools, loader, running, conn, framesRead, webVars, mcp>>

\* The first request to the provider raises.
TurnStartFails ==
    /\ turn.pc = "start"
    /\ turn' = Fail(RequestModel(turn), -1, "provider error")
    /\ UNCHANGED <<tools, loader, running, conn, framesRead, webVars, mcp>>

\* The mutant of StreamDelta: the arguments held for a call are parsed as
\* soon as a chunk has added to them.
StreamDeltaEager ==
    /\ turn.pc = "stream"
    /\ turn.deltas < MaxDeltas
    /\ \E d \in TurnDeltas :
          LET t1 == [ProcessDelta(turn, d) EXCEPT !.deltas = @ + 1] IN
          turn' = IF t1.tool_info # turn.tool_info
                  THEN Emit(t1, Entry("json_loads", t1.round, 0, "", "",
                                      t1.tool_info[Len(t1.tool_info)].arguments))
                  ELSE t1
    /\ UNCHANGED <<tools, loader, running, conn, framesRead, webVars, mcp>>

\* The stream delivers one more chunk.
StreamDelta ==
    /\ turn.pc = "stream"
    /\ turn.deltas < MaxDeltas
    /\ \E d \in TurnDeltas :
          turn' = [ProcessDelta(turn, d) EXCEPT !.deltas = @ + 1]
    /\ UNCHANGED <<tools, loader, running, conn, framesRead, webVars, mcp>>

\* The stream raises while it is iterated.
StreamFails ==
    /\ turn.pc = "stream"
    /\ turn' = Fail(turn, -1, "provider error")
    /\ UNCHANGED <<tools, loader, running, conn, framesRead, webVars, mcp>>

\* The stream ends and tool_info is not empty.
StreamEndsWithCalls ==
    /\ turn.pc = "stream"
    /\ Len(turn.tool_info) > 0
    /\ turn' = BeginBatch(turn)
    /\ UNCHANGED <<tools, loader, running, conn, framesRead, webVars, mcp>>

\* The mutant of StreamEndsEmpty: the loop does not stop at an empty
\* tool_info and asks the provider again.
StreamEndsEmptyAsksAgain ==
    /\ turn.pc = "stream"
    /\ Len(turn.tool_info) = 0
    /\ turn.round < MaxRounds
    /\ turn' = OpenStream(ResetAccumulators(turn))
    /\ UNCHANGED <<tools, loader, running, conn, framesRead, webVars, mcp>>

\* The stream ends and tool_info is empty.
StreamEndsEmpty ==
    /\ turn.pc = "stream"
    /\ Len(turn.tool_info) = 0
    /\ turn' = FinishTurn(turn)
    /\ UNCHANGED <<tools, loader, running, conn, framesRead, webVars, mcp>>

\* One pass of the execution loop up to the yield of tool_execution.
ExecCall ==
    /\ turn.pc = "exec"
    /\ turn' = ParseCall(turn)
    /\ UNCHANGED <<tools, loader, running, conn, framesRead, webVars, mcp>>

\* The round trip of execute_tool returns what the server answers.
ExecRpc ==
    /\ turn.pc = "rpc"
    /\ turn' = FinishCall(turn, FALSE, ClientExecuteTool(tools, turn))
    /\ UNCHANGED <<tools, loader, running, conn, framesRead, webVars, mcp>>

\* The round trip of execute_tool raises in send_request.
ExecRpcRaises ==
    /\ turn.pc = "rpc"
    /\ turn' = FinishCall(turn, TRUE, Response("error", 0, <<"">>, {}, <<>>))
    /\ UNCHANGED <<tools, loader, running, conn, framesRead, webVars, mcp>>

\* The follow-up request after a batch.
FollowUp ==
    /\ turn.pc = "followup"
    /\ turn.round < MaxRounds
    /\ turn' = OpenStream(ResetAccumulators(turn))
    /\ UNCHANGED <<tools, loader, running, conn, framesRead, webVars, mcp>>

\* The follow-up request raises.
FollowUpFails ==
    /\ turn.pc = "followup"
    /\ turn.round < MaxRounds
    /\ turn' = Fail(RequestModel(ResetAccumulators(turn)), -1, "provider error")
    /\ UNCHANGED <<tools, loader, running, conn, framesRead, webVars, mcp>>

NextTurn ==
    \/ TurnStart
    \/ TurnStartFails
    \/ StreamDelta
    \/ StreamFails
    \/ StreamEndsWithCalls
    \/ StreamEndsEmpty
    \/ ExecCall
    \/ ExecRpc
    \/ ExecRpcRaises
    \/ FollowUp
    \/ FollowUpFails

SpecTurn == InitTurn /\ [][NextTurn]_vars

(***************************************************************************)
(* Claims about the streaming turn (SpecTurn)                              *)
(***************************************************************************)

Trace == turn.trace

\* The positions of the trace that hold an entry of this type, round and call.
At(type, round, call) ==
    {k \in 1..Len(Trace) :
        Trace[k].type = type /\ Trace[k].round = round /\ Trace[k].call = call}

\* The execution loop of the current round is running or has just finished.
InBatch == turn.pc \in {"exec", "rpc", "followup"}

\* The calls of the current batch.
Calls == 0..(Len(turn.tool_info) - 1)

\* C6: a failed tool call of a batch (invalid JSON arguments, tool not found,
\* tool raises, RPC raises) never aborts the batch, at any position: the turn
\* never ends with an error raised inside the execution loop, and every
\* tool_result of the batch carries the tool name and call id of the call it
\* was emitted for.
C6_FailedCallDoesNotAbortBatch ==
    /\ \A k \in 1..Len(Trace) : Trace[k].type = "error" => Trace[k].call = -1
    /\ InBatch =>
          \A j \in Calls : \A k \in At("tool_result", turn.round, j) :
              /\ Trace[k].name = turn.tool_info[j + 1].name
              /\ Trace[k].id = turn.tool_info[j + 1].id

\* C7: when the execution loop of a batch is over, every accumulated call has
\* had exactly one executeTool round trip, one tool_execution event and, after
\* it, one tool_result event with the same tool name and call id; and a batch
\* that was announced is never left before the follow-up request.
C7_OneExecutionPerCall ==
    /\ turn.pc = "followup" =>
          \A j \in Calls :
              /\ Cardinality(At("rpc_request", turn.round, j)) = 1
              /\ Cardinality(At("tool_execution", turn.round, j)) = 1
              /\ Cardinality(At("tool_result", turn.round, j)) = 1
              /\ \A e \in At("tool_execution", turn.round, j) :
                 \A r \in At("tool_result", turn.round, j) :
                     /\ e < r
                     /\ Trace[e].name = Trace[r].name
                     /\ Trace[e].id = Trace[r].id
    /\ \A k \in 1..Len(Trace) :
          Trace[k].type = "tool_calls" /\ turn.pc = "done" =>
              \E m \in (k + 1)..Len(Trace) :
                  Trace[m].type = "model_request" /\ Trace[m].round = Trace[k].round + 1

\* C8: the calls of a batch are executed one at a time in ascending index
\* order: when the executeTool request of a call is sent, every call of a
\* lower index of the batch has returned and its tool_result has been emitted,
\* no call of a higher index has been requested, and the tool_calls
\* announcement of the batch precedes each of its tool_execution events.
C8_SequentialAscendingExecution ==
    \A k \in 1..Len(Trace) :
        /\ Trace[k].type = "rpc_request" =>
              /\ \A j \in 0..(Trace[k].call - 1) :
                    /\ \E m \in At("tool_result", Trace[k].round, j) : m < k
                    /\ \A q \in At("rpc_request", Trace[k].round, j) :
                          \E m \in At("rpc_return", Trace[k].round, j) : q < m /\ m < k
              /\ \A m \in 1..(k - 1) :
                    Trace[m].type = "rpc_request" /\ Trace[m].round = Trace[k].round
                        => Trace[m].call < Trace[k].call
        /\ Trace[k].type = "tool_execution" =>
              \E m \in At("tool_calls", Trace[k].round, -1) : m < k

\* A batch of two calls whose second call has been sent to the server.
C8_Witness ==
    /\ Len(turn.tool_info) = 2
    /\ At("rpc_request", 1, 0) # {}
    /\ At("rpc_request", 1, 1) # {}

\* C9: while the stream of a round trip is being read, no arguments string
\* accumulated in that round trip has been handed to json.loads and no tool
\* of that round trip has been announced for execution or executed.
C9_NoParseOrExecutionWhileStreaming ==
    turn.pc = "stream" =>
        \A k \in 1..Len(Trace) :
            Trace[k].round = turn.round =>
                Trace[k].type \notin {"json_loads", "tool_calls", "tool_execution",
                                      "rpc_request", "rpc_return", "tool_result"}

\* The stream is still read while the accumulator holds the first half of an
\* arguments document, in a round trip that follows an executed batch.
C9_Witness ==
    /\ turn.pc = "stream"
    /\ turn.round = 2
    /\ Len(turn.tool_info) > 0
    /\ turn.tool_info[1].arguments = ArgsHead
    /\ \E k \in 1..Len(Trace) : Trace[k].type = "rpc_request"

\* The tool messages that directly follow position a of a message list.
ToolRun(lm, a) ==
    CHOOSE n \in 0..(Len(lm) - a) :
        /\ \A j \in 1..n : lm[a + j].role = "tool"
        /\ (a + n = Len(lm) \/ lm[a + n + 1].role # "tool")

\* The terminal events of the trace.
Terminals == {k \in 1..Len(Trace) : Trace[k].type \in {"end", "error"}}

\* C11: when all calls of a batch have executed and the follow-up request is
\* about to be issued, the session's stored messages end with one assistant
\* message that carries the descriptors of the batch and one tool message per
\* call.
C11_SessionHoldsBatchMessages ==
    turn.pc = "followup" =>
        LET n == Len(turn.tool_info)
            a == Len(turn.session) - n
        IN  /\ a >= 1
            /\ turn.session[a].role = "assistant"
            /\ Len(turn.session[a].tool_calls) = n
            /\ \A j \in 1..n : turn.session[a + j].role = "tool"

\* C12: in the message list of a follow-up request, every assistant message
\* of a batch holds one descriptor per call and is followed by one tool
\* message per call, whose tool_call_id is the id of the descriptor at the
\* same position, for successful and failed calls alike.
C12_FollowUpMessagesPairCalls ==
    (turn.pc = "stream" /\ turn.round >= 2) =>
        \A a \in 3..Len(turn.localMessages) :
            turn.localMessages[a].role = "assistant" =>
                LET n == ToolRun(turn.localMessages, a) IN
                /\ Len(turn.localMessages[a].tool_calls) = n
                /\ \A j \in 1..n :
                      turn.localMessages[a + j].tool_call_id =
                          turn.localMessages[a].tool_calls[j].id

\* C13: a turn that has run to completion has emitted exactly one terminal
\* event (end or error), which is its last event, and a turn that is still
\* running has emitted none; the terminal event is error when the provider
\* failed and end when the stream ended with an empty accumulator.
C13_ExactlyOneTerminalEvent ==
    /\ turn.pc \notin {"done", "idle"} => Terminals = {}
    /\ turn.pc = "done" => Terminals = {Len(Trace)}
    /\ (turn.pc = "done" /\ Trace[Len(Trace)].type = "end") => turn.tool_info = <<>>

\* A turn that executed a batch and then ended, and its last event.
C13_Witness ==
    /\ turn.pc = "done"
    /\ turn.round = 2
    /\ Trace[Len(Trace)].type = "end"
    /\ At("tool_result", 1, 0) # {}

\* A record of the accumulator lacks an id, a name or an arguments string.
IncompleteBatch(t) ==
    \E k \in 1..Len(t.tool_info) : ~HasKeys(t.tool_info[k])

\* C38: if at stream end a record of the accumulator lacks an id, a name or
\* an arguments string, the step that leaves the stream ends the turn with
\* one error event and nothing else: no tool_calls event, no tool_execution
\* event, no json.loads and no round trip for the batch; and the turn that
\* ended so holds no such entry for that round trip.
C38_IncompleteBatchEndsInError ==
    /\ [][(turn.pc = "stream" /\ turn'.pc # "stream" /\ IncompleteBatch(turn))
              => /\ turn'.pc = "done"
                 /\ Len(turn'.trace) = Len(turn.trace) + 1
                 /\ SubSeq(turn'.trace, 1, Len(turn.trace)) = turn.trace
                 /\ turn'.trace[Len(turn'.trace)].type = "error"
                 /\ turn'.request_id = turn.request_id
                 /\ turn'.session = turn.session]_vars
    /\ []((turn.pc = "done" /\ IncompleteBatch(turn))
              => /\ Trace[Len(Trace)].type = "error"
                 /\ \A k \in 1..Len(Trace) :
                       Trace[k].round = turn.round
                           => Trace[k].type \in {"model_request", "content", "error"})

\* C38's case: the stream of the first round trip sent a whole call at index
\* 1 and nothing at index 0, and the turn has ended.
C38_Witness ==
    /\ turn.pc = "done"
    /\ turn.round = 1
    /\ Len(turn.tool_info) = 2
    /\ turn.tool_info[1] = EmptyRecord
    /\ HasKeys(turn.tool_info[2])
    /\ Trace[Len(Trace)].type = "error"
    /\ Trace[Len(Trace)].text = "KeyError"

\* C14: the step in which a turn fails leaves the session's messages as they
\* were, and the user message stored at dispatch stays the first of them.
C14_FailureKeepsHistory ==
    /\ [](turn.pc # "idle" => (Len(turn.session) >= 1 /\ turn.session[1] = NewTurn.session[1]))
    /\ [][(turn'.pc = "done" /\ turn'.trace[Len(turn'.trace)].type = "error")
              => turn'.session = turn.session]_vars

\* The provider failed in the follow-up round trip of a turn.
C14_Witness ==
    /\ turn.pc = "done"
    /\ turn.round = 2
    /\ Trace[Len(Trace)].type = "error"
    /\ Trace[Len(Trace)].text = "provider error"
    /\ turn.session = NewTurn.session

RECURSIVE JoinContent(_)
\* The texts of the content events from position k on, the two headers left
\* out, in the order of their emission.
JoinContent(k) ==
    IF k > Len(Trace) THEN ""
    ELSE (IF Trace[k].type = "content"
             /\ Trace[k].text \notin {"== reasoning ==", "== answer =="}
          THEN Trace[k].text ELSE "") \o JoinContent(k + 1)

\* The turn ended in its first round trip and the provider sent answer text
\* only.
ContentOnlyTurn ==
    /\ turn.pc = "done"
    /\ Trace[Len(Trace)].type = "end"
    /\ turn.round = 1
    /\ turn.reasoning_content = ""

\* C15: a turn in which the provider returns only answer content ends with
\* `end` after its content events and leaves in the history of a fresh
\* session exactly the user message followed by one assistant message whose
\* content is the concatenation of the answer deltas.
C15_ContentOnlyTurnStoresTwoEntries ==
    ContentOnlyTurn =>
        /\ turn.session = <<Msg("user", "hi", "", <<>>),
                            Msg("assistant", JoinContent(1), "", <<>>)>>
        /\ \A k \in 2..(Len(Trace) - 1) : Trace[k].type = "content"

\* Such a turn with two answer deltas.
C15_Witness ==
    /\ ContentOnlyTurn
    /\ turn.answer_content = "aa"
    /\ Len(turn.session) = 2

(***************************************************************************)
(* Part 5.  The tool-call accumulator on its own (SpecAccumulate)          *)
(***************************************************************************)

\* Chunks read from one stream.
MaxPieces == 3

\* The pieces a provider cuts tool calls into: any index, and any of the
\* three fields present or absent.
PieceFragments ==
    {Fragment(k, i, n, a) :
        k \in {0, 1}, i \in {"", "c"}, n \in {"", "g"}, a \in {"", "{", "}"}}

\* The chunks of the streams explored: a usage chunk, a delta with one
\* fragment, a delta with two fragments, and deltas whose fragment comes with
\* reasoning text or with answer text.
PieceDeltas ==
    {Delta(TRUE, <<>>, <<>>, <<>>)}
    \cup {Delta(FALSE, <<>>, <<>>, <<f>>) : f \in PieceFragments}
    \cup {Delta(FALSE, <<>>, <<>>, <<Fragment(0, "c", "g", "{"), Fragment(1, "c", "g", "}")>>),
          Delta(FALSE, <<"r">>, <<>>, <<Fragment(0, "c", "g", "{")>>),
          Delta(FALSE, <<"r">>, <<"b">>, <<>>),
          Delta(FALSE, <<>>, <<"a">>, <<Fragment(0, "", "", "}")>>)}

\* The stream of the first request is open.
InitAccumulate ==
    /\ tools = LoadedTools
    /\ InitLoader
    /\ running = TRUE
    /\ conn = [c \in Conns |-> NewConn]
    /\ framesRead = 0
    /\ turn = OpenStream(NewTurn)
    /\ InitWeb
    /\ InitClient

\* The stream delivers one more chunk; delivered keeps the tool-call
\* fragments the provider has sent and deliveredContent the answer content,
\* in the order of their arrival.
AccumulateDelta ==
    /\ turn.pc = "stream"
    /\ turn.deltas < MaxPieces
    /\ \E d \in PieceDeltas :
          turn' = [ProcessDelta(turn, d) EXCEPT !.deltas = @ + 1,
                                                !.delivered = @ \o d.tool_calls,
                                                !.deliveredContent = @ \o d.content]
    /\ UNCHANGED <<tools, loader, running, conn, framesRead, webVars, mcp>>

NextAccumulate ==
    \/ AccumulateDelta
    \/ StreamEndsWithCalls
    \/ StreamEndsEmpty

SpecAccumulate == InitAccumulate /\ [][NextAccumulate]_vars

(***************************************************************************)
(* Claims about the accumulator (SpecAccumulate)                           *)
(***************************************************************************)

RECURSIVE Joined(_, _, _)
\* The concatenation, in arrival order, of one field of the fragments of one
\* index.
Joined(fs, index, field) ==
    IF fs = <<>> THEN ""
    ELSE LET f == Head(fs) IN
         (IF f.index = index THEN f[field] ELSE "") \o Joined(Tail(fs), index, field)

\* What the accumulator holds for an index (nothing beyond its length).
Held(tool_info, index) ==
    IF index < Len(tool_info) THEN tool_info[index + 1] ELSE EmptyRecord

\* C10: once the stream has ended, the accumulator holds, for every index and
\* each of id, name and arguments, the concatenation in arrival order of the
\* fragments the provider delivered for that index and field, which is also
\* what the delivery of the call in one piece leaves in the accumulator.
C10_AccumulatorIsConcatenation ==
    turn.pc # "stream" =>
        \A k \in {0, 1} :
            LET whole == Fragment(k, Joined(turn.delivered, k, "id"),
                                  Joined(turn.delivered, k, "name"),
                                  Joined(turn.delivered, k, "arguments"))
            IN  /\ Held(turn.tool_info, k).id = whole.id
                /\ Held(turn.tool_info, k).name = whole.name
                /\ Held(turn.tool_info, k).arguments = whole.arguments
                /\ Held(turn.tool_info, k) = Held(AddFragments(<<>>, <<whole>>), k)

RECURSIVE JoinedText(_)
\* The concatenation of a list of texts.
JoinedText(texts) ==
    IF texts = <<>> THEN "" ELSE Head(texts) \o JoinedText(Tail(texts))

\* C34: every fragment of every delta is routed by its kind.  While the
\* stream is read and when it has ended, the accumulator is what adding
\* every tool-call fragment the provider delivered, in order, leaves, and
\* the content accumulation is the concatenation of every content fragment
\* it delivered, whatever else the deltas carried.
C34_EveryFragmentRouted ==
    /\ turn.tool_info = AddFragments(<<>>, turn.delivered)
    /\ turn.answer_content = JoinedText(turn.deliveredContent)

(***************************************************************************)
(* Part 6.  The session store, the chat route and the clear route          *)
(***************************************************************************)

\* Calls of the clear route, chunks of all chat streams together.
MaxClears == 1

MaxChatDeltas == 2

\* What uuid.uuid4() returns, and ids that a client sends although the
\* server never issued them.
Uuids == {"u1", "u2"}

ClientIds == {"zz"}

\* The 'message' of a chat request.
ChatMessages == {"m1", "m2", "", " "}

\* message.strip() on the messages of the model.
Strip(message) == IF message \in {"", " "} THEN "" ELSE message

\* The mutant of IsBlank: the message is not stripped.
IsBlankUnstripped(message) == message = ""

\* `not message.strip()`
IsBlank(message) == Strip(message) = ""

\* The 'session_id' of a request: absent, known, or never issued.
SessionArgs(store) ==
    {<<>>} \cup {<<i>> : i \in (DOMAIN store) \cup ClientIds}

\* The chunks of a stream without tool calls.
ChatDeltas ==
    {Delta(FALSE, <<"r">>, <<>>, <<>>), Delta(FALSE, <<>>, <<"a">>, <<>>)}

\* `if not session_id`
Falsy(arg) == arg = <<>> \/ arg[1] = ""

\* WebServer.get_or_create_session: the id returned and the store afterwards.
GetOrCreateSession(store, arg, now, uuid) ==
    LET session_id == IF Falsy(arg) THEN uuid ELSE arg[1] IN
    [session_id |-> session_id,
     store      |-> IF session_id \notin DOMAIN store
                    THEN store @@ (session_id :> Session(<<>>, now, now))
                    ELSE [store EXCEPT ![session_id].last_activity = now]]

\* The mutant of BuildMessages: the stored messages are left out.
BuildMessagesNoHistory(history, message) ==
    <<Msg("system", "prompt", "", <<>>), Msg("user", message, "", <<>>)>>

\* chat(): the message list of the request, the system prompt, the stored
\* messages and the new user message.
BuildMessages(history, message) ==
    <<Msg("system", "prompt", "", <<>>)>> \o history \o <<Msg("user", message, "", <<>>)>>

\* The mutant of ClearedSession: the entry is made anew.
ClearedSessionAnew(session) == Session(<<>>, 0, 0)

\* clear_chat(): self.chat_sessions[session_id]['messages'] = []
ClearedSession(session) == [session EXCEPT !.messages = <<>>]

\* The mutant of BuildToolsDefinition: a definition is made for every
\* selected name, listed by the server or not.
BuildToolsDefinitionUnlisted(selected, available) == selected

\* WebServer.build_tools_definition: one definition for each selected name
\* that is the name of an available tool.
BuildToolsDefinition(selected, available) ==
    {name \in selected : \E t \in available : t = name}

\* chat(): tools = self.build_tools_definition() if self.selected_tools else None
ChatTools(selected, available) ==
    IF selected # {} THEN <<BuildToolsDefinition(selected, available)>> ELSE <<>>

\* stream_chat_response: `if tools: kwargs['tools'] = tools`, the tool
\* definitions the requests of the turn carry.
RequestTools(definitions) ==
    IF definitions # <<>> /\ definitions[1] # {} THEN definitions[1] ELSE {}

\* The chunks the chat streams have delivered so far.
ChatDeltaCount == chats["r1"].deltas + chats["r2"].deltas

\* The chat route up to the return of the Response object.  A blank message
\* is answered with status 400 before the store is touched.  Each request
\* that reaches the store arrives at a later time than the ones before it.
ChatDispatch(r) ==
    /\ chats[r].pc = "new"
    /\ \E arg \in SessionArgs(chat_sessions), message \in ChatMessages,
          uuid \in Uuids \ DOMAIN chat_sessions :
          IF IsBlank(message)
          THEN /\ chats' = [chats EXCEPT ![r].pc = "rejected", ![r].message = message]
               /\ UNCHANGED <<chat_sessions, clock>>
          ELSE LET g        == GetOrCreateSession(chat_sessions, arg, clock, uuid)
                   sid      == g.session_id
                   session  == g.store[sid]
                   messages == BuildMessages(session.messages, message)
                   stored   == Append(session.messages, Msg("user", message, "", <<>>))
               IN  /\ chat_sessions' = [g.store EXCEPT ![sid].messages = stored]
                   /\ chats' = [chats EXCEPT ![r] =
                         [pc |-> "turn", arg |-> arg, message |-> message,
                          session_id |-> sid,
                          seen |-> IF sid \in DOMAIN chat_sessions
                                   THEN <<chat_sessions[sid]>> ELSE <<>>,
                          got |-> session, at |-> clock, deltas |-> 0,
                          tools |-> ChatTools(selected_tools, available_tools),
                          frame |-> [NewTurn EXCEPT
                                       !.tools = ChatTools(selected_tools, available_tools),
                                       !.localMessages = messages,
                                       !.session = stored]]]
                   /\ clock' = clock + 1
    /\ UNCHANGED <<tools, loader, running, conn, framesRead, turn, cleared, mcp,
                 available_tools, selected_tools, sweep>>

\* The response is iterated: the first request to the provider is accepted.
ChatStart(r) ==
    /\ chats[r].pc = "turn"
    /\ chats[r].frame.pc = "start"
    /\ chats' = [chats EXCEPT ![r].frame = OpenStream(@)]
    /\ UNCHANGED <<tools, loader, running, conn, framesRead, turn, chat_sessions, clock, cleared, mcp,
                 available_tools, selected_tools, sweep>>

\* The provider fails, at the request or while the stream is read.
ChatFails(r) ==
    /\ chats[r].pc = "turn"
    /\ chats[r].frame.pc \in {"start", "stream"}
    /\ chats' = [chats EXCEPT
          ![r].frame = IF @.pc = "start" THEN Fail(RequestModel(@), -1, "provider error")
                       ELSE Fail(@, -1, "provider error"),
          ![r].pc = "done"]
    /\ UNCHANGED <<tools, loader, running, conn, framesRead, turn, chat_sessions, clock, cleared, mcp,
                 available_tools, selected_tools, sweep>>

\* The stream delivers one more chunk.
ChatDelta(r) ==
    /\ chats[r].pc = "turn"
    /\ chats[r].frame.pc = "stream"
    /\ ChatDeltaCount < MaxChatDeltas
    /\ \E d \in ChatDeltas :
          chats' = [chats EXCEPT ![r].frame = ProcessDelta(@, d), ![r].deltas = @ + 1]
    /\ UNCHANGED <<tools, loader, running, conn, framesRead, turn, chat_sessions, clock, cleared, mcp,
                 available_tools, selected_tools, sweep>>

\* The stream ends: the assistant message is appended to the stored messages
\* of the session if the store holds it, and `end` is yielded.
ChatEnd(r) ==
    /\ chats[r].pc = "turn"
    /\ chats[r].frame.pc = "stream"
    /\ LET sid == chats[r].session_id
           msg == Msg("assistant", FinalContent(chats[r].frame), "", <<>>)
       IN  chat_sessions' = IF sid \in DOMAIN chat_sessions
                            THEN [chat_sessions EXCEPT ![sid].messages = Append(@, msg)]
                            ELSE chat_sessions
    /\ chats' = [chats EXCEPT ![r].frame = FinishTurn(@), ![r].pc = "done"]
    /\ UNCHANGED <<tools, loader, running, conn, framesRead, turn, clock, cleared, mcp,
                 available_tools, selected_tools, sweep>>

\* The clear route: the messages of a known session are reset, any other
\* request is answered with status 404.
ClearChat ==
    /\ cleared.n < MaxClears
    /\ \E arg \in SessionArgs(chat_sessions) :
          LET found == ~Falsy(arg) /\ arg[1] \in DOMAIN chat_sessions IN
          /\ chat_sessions' = IF found
                              THEN [chat_sessions EXCEPT ![arg[1]] = ClearedSession(@)]
                              ELSE chat_sessions
          /\ cleared' = [n |-> cleared.n + 1, arg |-> arg, found |-> found, at |-> clock]
    /\ UNCHANGED <<tools, loader, running, conn, framesRead, turn, chats, clock, mcp,
                 available_tools, selected_tools, sweep>>

InitSession ==
    /\ tools = LoadedTools
    /\ InitLoader
    /\ running = TRUE
    /\ conn = [c \in Conns |-> NewConn]
    /\ framesRead = 0
    /\ turn = [NewTurn EXCEPT !.pc = "idle"]
    /\ InitWeb
    /\ InitClient

NextSession ==
    \/ \E r \in Reqs : ChatDispatch(r)
    \/ \E r \in Reqs : ChatStart(r)
    \/ \E r \in Reqs : ChatFails(r)
    \/ \E r \in Reqs : ChatDelta(r)
    \/ \E r \in Reqs : ChatEnd(r)
    \/ ClearChat

SpecSession == InitSession /\ [][NextSession]_vars

(***************************************************************************)
(* Claims about the session store (SpecSession)                            *)
(***************************************************************************)

\* The request reached get_or_create_session.
Dispatched(r) == chats[r].pc \in {"turn", "done"} /\ chats[r].at > 0

\* new is old with one message appended.
IsAppend(old, new) ==
    Len(new) = Len(old) + 1 /\ SubSeq(new, 1, Len(old)) = old

\* C16: no two turns of the same session are in progress at the same time.
C16_OneTurnPerSession ==
    \A r1 \in Reqs : \A r2 \in Reqs \ {r1} :
        (chats[r1].pc = "turn" /\ chats[r2].pc = "turn")
            => chats[r1].session_id # chats[r2].session_id

\* C18: between two clears the stored messages of a session change by appends
\* at the end only, and the message list of a request is the system prompt,
\* then the messages that were stored when the request arrived, in their
\* stored order, then the new user message.
C18_HistoryAppendOnlyAndSentInOrder ==
    /\ [](\A r \in Reqs : Dispatched(r) =>
              chats[r].frame.localMessages =
                  <<Msg("system", "prompt", "", <<>>)>> \o chats[r].got.messages
                      \o <<Msg("user", chats[r].message, "", <<>>)>>)
    /\ [][\A sid \in DOMAIN chat_sessions :
              /\ sid \in DOMAIN chat_sessions'
              /\ \/ chat_sessions'[sid].messages = chat_sessions[sid].messages
                 \/ IsAppend(chat_sessions[sid].messages, chat_sessions'[sid].messages)
                 \/ (cleared'.n # cleared.n /\ chat_sessions'[sid].messages = <<>>)]_vars

\* A request arrived for a session that held a finished turn.
C18_Witness ==
    \E r \in Reqs :
        /\ Dispatched(r)
        /\ Len(chats[r].got.messages) = 2
        /\ chats[r].got.messages[2].role = "assistant"
        /\ Len(chats[r].frame.localMessages) = 4

\* C19: get_or_create_session with an absent id or an id that is not in the
\* store returns a fresh random identifier with an empty history stored under
\* it; with a known id it returns that id, keeps messages and created_at, and
\* sets last_activity to the time of the call.
C19_GetOrCreateSession ==
    \A r \in Reqs : Dispatched(r) =>
        IF chats[r].seen = <<>>
        THEN /\ chats[r].session_id \in Uuids
             /\ chats[r].got = Session(<<>>, chats[r].at, chats[r].at)
        ELSE /\ chats[r].session_id = chats[r].arg[1]
             /\ chats[r].got.messages = chats[r].seen[1].messages
             /\ chats[r].got.created_at = chats[r].seen[1].created_at
             /\ chats[r].got.last_activity = chats[r].at

\* C20: a clear of an existing session leaves its message list empty, its
\* created_at and last_activity as they were, the store's ids and every other
\* session untouched; and get_or_create_session with a known id, cleared or
\* not, returns that id.
C20_ClearKeepsIdentity ==
    /\ [](\A r \in Reqs : (Dispatched(r) /\ chats[r].seen # <<>>)
              => chats[r].session_id = chats[r].arg[1])
    /\ [][(cleared'.n # cleared.n /\ cleared'.found) =>
              LET sid == cleared'.arg[1] IN
              /\ DOMAIN chat_sessions' = DOMAIN chat_sessions
              /\ chat_sessions'[sid].messages = <<>>
              /\ chat_sessions'[sid].created_at = chat_sessions[sid].created_at
              /\ chat_sessions'[sid].last_activity = chat_sessions[sid].last_activity
              /\ \A o \in DOMAIN chat_sessions \ {sid} :
                    chat_sessions'[o] = chat_sessions[o]]_vars

\* A session that held messages was cleared, and a later request with its id
\* found it empty and got the same id.
C20_Witness ==
    \E r \in Reqs :
        /\ Dispatched(r)
        /\ cleared.found
        /\ chats[r].arg = cleared.arg
        /\ chats[r].seen # <<>>
        /\ chats[r].seen[1].messages = <<>>
        /\ chats[r].session_id = cleared.arg[1]

\* The chat requests for the cleared session that were received after the
\* last clear.
ReceivedAfterClear ==
    {r \in Reqs : /\ Dispatched(r)
                  /\ chats[r].session_id = cleared.arg[1]
                  /\ chats[r].at >= cleared.at}

\* C36: after a clear of a session has returned, the stored messages of the
\* session are messages of chat requests received after that clear: each is
\* the user message of such a request or the assistant message its finished
\* turn stored, and there are at most two for each.  A turn that was in
\* progress when the session was cleared adds nothing.
C36_ClearedHistoryHoldsLaterTurnsOnly ==
    cleared.found =>
        LET stored == chat_sessions[cleared.arg[1]].messages IN
        /\ Len(stored) <= 2 * Cardinality(ReceivedAfterClear)
        /\ \A k \in 1..Len(stored) :
              \E r \in ReceivedAfterClear :
                 \/ stored[k] = Msg("user", chats[r].message, "", <<>>)
                 \/ /\ chats[r].frame.pc = "done"
                    /\ stored[k] = Msg("assistant", FinalContent(chats[r].frame), "", <<>>)

\* C39: a chat request whose message is empty or only whitespace is
\* rejected and leaves the session store as it was: no session is created,
\* no last_activity is refreshed, no message is appended; and no request to
\* the model is ever made for it.
C39_BlankMessageRejected ==
    /\ [][\A r \in Reqs :
              (chats[r].pc = "new" /\ chats'[r].pc # "new"
                  /\ chats'[r].message \in {"", " "})
                  => /\ chats'[r].pc = "rejected"
                     /\ chat_sessions' = chat_sessions
                     /\ chats'[r].frame = chats[r].frame]_vars
    /\ [](\A r \in Reqs :
              chats[r].pc = "rejected"
                  => /\ chats[r].frame.pc = "idle"
                     /\ chats[r].frame.trace = <<>>
                     /\ chats[r].session_id = "")

\* C39's case: a request with a message of one space was rejected while the
\* store held a session with messages.
C39_Witness ==
    \E r \in Reqs :
        /\ chats[r].pc = "rejected"
        /\ chats[r].message = " "
        /\ \E sid \in DOMAIN chat_sessions : Len(chat_sessions[sid].messages) = 2

(***************************************************************************)
(* Part 7.  MCPClient.send_request called from several request threads     *)
(***************************************************************************)

\* Calls of execute_tool one thread makes.
MaxCalls == 2

\* The tools the threads ask for.
CalledTools == {"gcd", "nope"}

\* The frame send_request writes for execute_tool(tool, {"a": 4, "b": 6}).
RequestFrame(tool, id) ==
    Frame("text", "object", "execute_tool", "dict", tool,
          [mapping |-> TRUE, keys |-> {"a", "b"}, good |-> TRUE], <<id>>)

\* `self.request_id += 1`, first half: the attribute is read.
CallBegin(t) ==
    /\ mcp.thread[t].pc = "idle"
    /\ mcp.thread[t].calls < MaxCalls
    /\ \E tool \in CalledTools :
          mcp' = [mcp EXCEPT !.thread[t].pc = "incr", !.thread[t].tool = tool,
                             !.thread[t].tmp = mcp.request_id,
                             !.thread[t].got = <<>>]
    /\ UNCHANGED <<tools, loader, running, conn, framesRead, turn, webVars>>

\* `self.request_id += 1`, second half: the sum is written back.
CallIncr(t) ==
    /\ mcp.thread[t].pc = "incr"
    /\ mcp' = [mcp EXCEPT !.request_id = mcp.thread[t].tmp + 1, !.thread[t].pc = "build"]
    /\ UNCHANGED <<tools, loader, running, conn, framesRead, turn, webVars>>

\* The request dictionary is built: 'id': self.request_id
CallBuild(t) ==
    /\ mcp.thread[t].pc = "build"
    /\ mcp' = [mcp EXCEPT !.thread[t].id = mcp.request_id, !.thread[t].pc = "send"]
    /\ UNCHANGED <<tools, loader, running, conn, framesRead, turn, webVars>>

\* self.socket.send(...)
CallSend(t) ==
    /\ mcp.thread[t].pc = "send"
    /\ mcp' = [mcp EXCEPT
          !.outbound = Append(@, RequestFrame(mcp.thread[t].tool, mcp.thread[t].id)),
          !.thread[t].pc = "recv",
          !.thread[t].calls = @ + 1]
    /\ UNCHANGED <<tools, loader, running, conn, framesRead, turn, webVars>>

\* The handler of the connection reads the next request and sends its
\* response.
ServerAnswers ==
    /\ mcp.outbound # <<>>
    /\ mcp' = [mcp EXCEPT
          !.outbound = Tail(@),
          !.inbound = Append(@, HandleRequest(tools, Head(mcp.outbound)).response)]
    /\ tools' = HandleRequest(tools, Head(mcp.outbound)).registry
    /\ UNCHANGED <<loader, running, conn, framesRead, turn, webVars>>

\* self.socket.recv(4096) returns the next response on the socket, to
\* whichever thread is calling it.
CallRecv(t) ==
    /\ mcp.thread[t].pc = "recv"
    /\ mcp.inbound # <<>>
    /\ mcp' = [mcp EXCEPT !.inbound = Tail(@),
                          !.thread[t].got = <<Head(mcp.inbound)>>,
                          !.thread[t].pc = "idle"]
    /\ UNCHANGED <<tools, loader, running, conn, framesRead, turn, webVars>>

InitClientThreads ==
    /\ tools = LoadedTools
    /\ InitLoader
    /\ running = TRUE
    /\ conn = [c \in Conns |-> NewConn]
    /\ framesRead = 0
    /\ turn = [NewTurn EXCEPT !.pc = "idle"]
    /\ InitWeb
    /\ InitClient

NextClient ==
    \/ \E t \in Threads : CallBegin(t)
    \/ \E t \in Threads : CallIncr(t)
    \/ \E t \in Threads : CallBuild(t)
    \/ \E t \in Threads : CallSend(t)
    \/ \E t \in Threads : CallRecv(t)
    \/ ServerAnswers

SpecClient == InitClientThreads /\ [][NextClient]_vars

(***************************************************************************)
(* Claims about the shared client (SpecClient)                             *)
(***************************************************************************)

\* The threads that have sent a request and not yet received a response.
Outstanding == {t \in Threads : mcp.thread[t].pc = "recv"}

\* C17: at most one request is outstanding on the connection of the shared
\* MCPClient, and the response a call returns carries the id of the request
\* that call sent.
C17_OneRequestInFlight ==
    /\ Cardinality(Outstanding) <= 1
    /\ \A t \in Threads :
          mcp.thread[t].got # <<>> => mcp.thread[t].got[1].id = <<mcp.thread[t].id>>

(***************************************************************************)
(* Part 8.  WebServer.clean_expired_sessions                               *)
(*                                                                         *)
(* SpecSweep        : the sweep called between requests, on one thread     *)
(* SpecSweepThreads : the sweep on a thread of its own, its loops          *)
(*                    interleaved with the chat route and the clear route  *)
(***************************************************************************)

\* self.session_timeout, in seconds; the clock counts seconds.
SessionTimeout == 3600

\* Time that passes between two requests, and how often it does.
Elapsed == {1799, 1800}

MaxElapses == 2

MaxSweeps == 2

\* The mutant of IsExpired: a session as old as the timeout is expired too.
IsExpiredInclusive(session, now) == now - session.last_activity >= SessionTimeout

\* current_time - session['last_activity'] > timedelta(seconds=self.session_timeout)
IsExpired(session, now) == now - session.last_activity > SessionTimeout

\* The mutant of CleanExpiredSessions: one expired session is deleted by a call.
CleanExpiredSessionsOneByOne(store, now) ==
    LET expired_sessions == {k \in DOMAIN store : IsExpired(store[k], now)} IN
    IF expired_sessions = {} THEN store
    ELSE [k \in DOMAIN store \ {CHOOSE e \in expired_sessions : TRUE} |-> store[k]]

\* clean_expired_sessions run from its first line to its last with no other
\* thread in between: the store it leaves.
CleanExpiredSessions(store, now) ==
    LET expired_sessions == {k \in DOMAIN store : IsExpired(store[k], now)} IN
    [k \in DOMAIN store \ expired_sessions |-> store[k]]

\* The number of times the clock was moved forward: every request adds one
\* second and there are fewer requests than 1799.
Elapses == clock \div 1799

\* Time passes with no request.
Elapse ==
    /\ Elapses < MaxElapses
    /\ \E d \in Elapsed : clock' = clock + d
    /\ UNCHANGED <<tools, loader, running, conn, framesRead, turn, chat_sessions, chats,
                   cleared, mcp, available_tools, selected_tools, sweep>>

\* One call of clean_expired_sessions, start to end.
Sweep ==
    /\ sweep.pc = "idle"
    /\ sweep.n < MaxSweeps
    /\ chat_sessions' = CleanExpiredSessions(chat_sessions, clock)
    /\ sweep' = [sweep EXCEPT
          !.n = @ + 1, !.now = clock, !.before = chat_sessions,
          !.after = chat_sessions',
          !.expired_sessions = DOMAIN chat_sessions \ DOMAIN chat_sessions',
          !.idle = (sweep.n > 0 /\ clock = sweep.now /\ chat_sessions = sweep.after)]
    /\ UNCHANGED <<tools, loader, running, conn, framesRead, turn, chats, clock,
                   cleared, mcp, available_tools, selected_tools>>

InitSweep == InitSession

NextSweep ==
    \/ \E r \in Reqs : ChatDispatch(r)
    \/ Elapse
    \/ Sweep

SpecSweep == InitSweep /\ [][NextSweep]_vars

\* C21: a call of clean_expired_sessions deletes exactly the sessions whose
\* last activity lies more than session_timeout seconds back; a session whose
\* age equals the timeout stays, and every session that stays keeps its record.
C21_SweepRemovesExactlyExpired ==
    [][sweep'.n = sweep.n + 1 =>
          /\ DOMAIN chat_sessions' \subseteq DOMAIN chat_sessions
          /\ \A s \in DOMAIN chat_sessions :
                IF clock - chat_sessions[s].last_activity > 3600
                THEN s \notin DOMAIN chat_sessions'
                ELSE /\ s \in DOMAIN chat_sessions'
                     /\ chat_sessions'[s] = chat_sessions[s]]_vars

\* C21's case: a sweep has deleted a session and kept one whose age was
\* exactly the timeout.
C21_Witness ==
    /\ sweep.n >= 1
    /\ \E s \in DOMAIN sweep.after : sweep.now - sweep.after[s].last_activity = 3600
    /\ DOMAIN sweep.before \ DOMAIN sweep.after # {}

\* C22: a call of clean_expired_sessions that follows another with no time
\* elapsed and no request in between deletes nothing and changes nothing.
C22_SweepIdempotent ==
    [][(/\ sweep'.n = sweep.n + 1
        /\ sweep.n > 0
        /\ clock = sweep.now
        /\ chat_sessions = sweep.after) => chat_sessions' = chat_sessions]_vars

\* C22's case: the second of two successive sweeps has run, the first of
\* which had deleted a session.
C22_Witness ==
    /\ sweep.n = 2
    /\ sweep.idle
    /\ sweep.before = sweep.after
    /\ \E r \in Reqs : /\ chats[r].pc = "turn"
                        /\ chats[r].session_id \notin DOMAIN chat_sessions

\* clean_expired_sessions on a thread of its own, up to the for statement:
\* current_time is taken and the iterator over chat_sessions.items() is made.
SweepBegin ==
    /\ sweep.pc \in {"idle", "done", "raised"}
    /\ sweep.n < MaxSweeps
    /\ sweep' = [sweep EXCEPT
          !.pc = "scan", !.n = @ + 1, !.now = clock,
          !.size = Cardinality(DOMAIN chat_sessions),
          !.visited = {}, !.expired_sessions = {},
          !.before = chat_sessions, !.after = chat_sessions, !.idle = FALSE]
    /\ UNCHANGED <<tools, loader, running, conn, framesRead, turn, chat_sessions, chats,
                   clock, cleared, mcp, available_tools, selected_tools>>

\* One step of the for loop.  The dict iterator raises RuntimeError
\* ("dictionary changed size during iteration") when the dict holds another
\* number of entries than when the iterator was made; nothing in the method
\* catches it.  Otherwise the next entry is examined, or the loop ends.
SweepNext ==
    /\ sweep.pc = "scan"
    /\ IF Cardinality(DOMAIN chat_sessions) # sweep.size
       THEN sweep' = [sweep EXCEPT !.pc = "raised", !.after = chat_sessions]
       ELSE IF DOMAIN chat_sessions \subseteq sweep.visited
       THEN sweep' = [sweep EXCEPT !.pc = "delete"]
       ELSE \E k \in DOMAIN chat_sessions \ sweep.visited :
               sweep' = [sweep EXCEPT
                  !.visited = @ \cup {k},
                  !.expired_sessions =
                      IF IsExpired(chat_sessions[k], sweep.now) THEN @ \cup {k} ELSE @]
    /\ UNCHANGED <<tools, loader, running, conn, framesRead, turn, chat_sessions, chats,
                   clock, cleared, mcp, available_tools, selected_tools>>

\* One step of the loop over expired_sessions: del self.chat_sessions[id].
SweepDelete ==
    /\ sweep.pc = "delete"
    /\ sweep.expired_sessions # {}
    /\ \E k \in sweep.expired_sessions :
          /\ chat_sessions' = [j \in DOMAIN chat_sessions \ {k} |-> chat_sessions[j]]
          /\ sweep' = [sweep EXCEPT !.expired_sessions = @ \ {k}]
    /\ UNCHANGED <<tools, loader, running, conn, framesRead, turn, chats, clock,
                   cleared, mcp, available_tools, selected_tools>>

\* The method returns.
SweepReturn ==
    /\ sweep.pc = "delete"
    /\ sweep.expired_sessions = {}
    /\ sweep' = [sweep EXCEPT !.pc = "done", !.after = chat_sessions]
    /\ UNCHANGED <<tools, loader, running, conn, framesRead, turn, chat_sessions, chats,
                   clock, cleared, mcp, available_tools, selected_tools>>

NextSweepThreads ==
    \/ \E r \in Reqs : ChatDispatch(r)
    \/ ClearChat
    \/ Elapse
    \/ SweepBegin
    \/ SweepNext
    \/ SweepDelete
    \/ SweepReturn

SpecSweepThreads == InitSweep /\ [][NextSweepThreads]_vars

\* C23: a sweep that runs while other threads create sessions, append to
\* other sessions or clear them ends without an error, has deleted every
\* session that was expired when it began and has deleted no session that was
\* not.
C23_SweepSafeAmongRequests ==
    sweep.pc \in {"done", "raised"} =>
        /\ sweep.pc = "done"
        /\ \A s \in DOMAIN sweep.before :
              IF sweep.now - sweep.before[s].last_activity > 3600
              THEN s \notin DOMAIN sweep.after
              ELSE s \in DOMAIN sweep.after

(***************************************************************************)
(* Part 9.  The client leaves while the turn is streamed                   *)
(*                                                                         *)
(* SpecTurnClosed : SpecTurn with the close() of the generator             *)
(***************************************************************************)

\* The types of the trace entries that are events the generator yields.
EventTypes == {"content", "tool_calls", "tool_execution", "tool_result", "end", "error"}

\* The generator is suspended at a yield: it has not returned and the last
\* thing it did was to yield an event.
AtYield(t) ==
    /\ t.pc \in {"stream", "exec", "rpc", "followup"}
    /\ Len(t.trace) > 0
    /\ t.trace[Len(t.trace)].type \in EventTypes

\* The mutant of Close: an except clause catches GeneratorExit as it
\* catches Exception, and the generator goes on.
CloseCaught(t) == Emit(t, Entry("close", t.round, -1, "", "", ""))

\* generator.close(): GeneratorExit is raised at the yield.  It is no
\* Exception, so neither `except Exception` clause of stream_chat_response
\* catches it, there is no finally clause, and the frame is left.
Close(t) == [Emit(t, Entry("close", t.round, -1, "", "", "")) EXCEPT !.pc = "closed"]

\* The client disconnects: the server closes the generator at the event it
\* was handed last.
ClientDisconnects ==
    /\ AtYield(turn)
    /\ turn' = Close(turn)
    /\ UNCHANGED <<tools, loader, running, conn, framesRead, webVars, mcp>>

NextTurnClosed ==
    \/ NextTurn
    \/ ClientDisconnects

SpecTurnClosed == InitTurn /\ [][NextTurnClosed]_vars

\* C24: once the generator is closed at the event it was emitting, the turn
\* yields no further event, sends no further executeTool request and no
\* further request to the model: the close is the last entry of the trace,
\* and the closed frame never moves again.
C24_NothingAfterDisconnect ==
    /\ \A k \in 1..Len(turn.trace) :
          turn.trace[k].type = "close" => k = Len(turn.trace)
    /\ turn.pc = "closed" => turn.trace[Len(turn.trace)].type = "close"

\* C24's case: the generator was closed at the tool_execution event of the
\* first of two calls, before the request of that call was sent.
C24_Witness ==
    /\ turn.pc = "closed"
    /\ Len(turn.tool_info) = 2
    /\ Len(turn.trace) > 1
    /\ turn.trace[Len(turn.trace) - 1].type = "tool_execution"
    /\ turn.trace[Len(turn.trace) - 1].call = 0

(***************************************************************************)
(* Part 10.  The tool-call loop ends                                       *)
(*                                                                         *)
(* SpecTurnLive : SpecTurn where the response is iterated to its end and   *)
(*                every stream and every round trip returns                *)
(***************************************************************************)

\* Chunks of one turn where the end of the turn is awaited.
MaxLiveDeltas == 3

\* The stream delivers one more chunk, of a turn of at most MaxLiveDeltas.
StreamDeltaShort ==
    /\ turn.deltas < MaxLiveDeltas
    /\ StreamDelta

NextTurnLive ==
    \/ TurnStart
    \/ TurnStartFails
    \/ StreamDeltaShort
    \/ StreamFails
    \/ StreamEndsWithCalls
    \/ StreamEndsEmpty
    \/ ExecCall
    \/ ExecRpc
    \/ ExecRpcRaises
    \/ FollowUp
    \/ FollowUpFails

\* The steps of a turn in which nothing fails: the provider accepts the
\* request, the stream delivers or ends, a call is parsed, a round trip
\* returns.
TurnProceeds ==
    \/ TurnStart
    \/ StreamDeltaShort
    \/ StreamEndsWithCalls
    \/ StreamEndsEmpty
    \/ ExecCall
    \/ ExecRpc
    \/ FollowUp

\* The server iterates the generator as long as it yields, and the provider
\* and the RPC server answer: a step that can be taken is taken.
SpecTurnLive == InitTurn /\ [][NextTurnLive]_vars /\ WF_vars(TurnProceeds)

\* The provider has asked for tools in every round trip the model allows.
RoundsUsedUp == turn.pc = "followup" /\ turn.round = MaxRounds

\* C25: the loop body runs once for each round trip whose stream ended with
\* tool_info not empty, however many there are, and the turn ends with the
\* end event at the first round trip whose stream ends with tool_info empty;
\* when every stream and every round trip returns, the turn ends as soon as
\* the provider asks for no tool.
C25_TurnTerminates ==
    /\ [](\A j \in 1..turn.round :
            /\ Cardinality(At("tool_calls", j, -1)) <= 1
            /\ (j < turn.round /\ turn.pc # "done") => At("tool_calls", j, -1) # {}
            /\ At("end", j, -1) # {} =>
                  /\ j = turn.round
                  /\ turn.tool_info = <<>>
                  /\ At("tool_calls", j, -1) = {}
                  /\ \A i \in 1..(j - 1) : At("tool_calls", i, -1) # {})
    /\ <>(turn.pc = "done" \/ RoundsUsedUp)

\* C25's case: the turn has ended with the end event in its second round
\* trip, after a batch of two calls in the first.
C25_Witness ==
    /\ turn.pc = "done"
    /\ turn.round = 2
    /\ At("end", 2, -1) # {}
    /\ At("tool_result", 1, 0) # {}
    /\ At("tool_result", 1, 1) # {}

(***************************************************************************)
(* Part 11.  A round trip of the shared client and a silent server         *)
(*                                                                         *)
(* SpecClientLive : SpecClient where every thread inside send_request      *)
(*                  takes its next step; nothing obliges the server to     *)
(*                  answer                                                 *)
(***************************************************************************)

\* The steps thread t takes inside send_request once it has entered it.
\* recv returns as soon as a response is on the socket; the socket has no
\* timeout, so without a response the step is not enabled.
SendRequestSteps(t) ==
    \/ CallIncr(t)
    \/ CallBuild(t)
    \/ CallSend(t)
    \/ CallRecv(t)

SpecClientLive ==
    InitClientThreads /\ [][NextClient]_vars
        /\ \A t \in Threads : WF_vars(SendRequestSteps(t))

\* C26: every listTools and executeTool round trip returns at last, also
\* when the server never answers: a thread that waits in recv comes back from
\* send_request.
C26_RoundTripReturns ==
    \A t \in Threads : (mcp.thread[t].pc = "recv") ~> (mcp.thread[t].pc = "idle")

(***************************************************************************)
(* Part 12.  The web server started while the RPC server is unreachable    *)
(*                                                                         *)
(* SpecOffline : the chat route, the tools route and the selection route   *)
(*               after connect_mcp has failed                              *)
(***************************************************************************)

\* Requests to the tools route.
MaxListings == 1

\* The 'tools' of a selection request: names of registered tools and a name
\* the server does not know.
Selections == {{"gcd", "system_info"}, {"nope", "gcd"}}

\* connect_mcp: self.available_tools after MCPClient.connect() returned
\* connected and list_tools returned listed.
ConnectMcp(connected, listed) == IF connected THEN listed ELSE {}

\* The selection route: self.selected_tools = data.get('tools', [])
\* One selection is made, over the empty list the server starts with.
SelectTools ==
    /\ selected_tools = {}
    /\ \E names \in Selections : selected_tools' = names
    /\ UNCHANGED <<tools, loader, running, conn, framesRead, turn, chat_sessions, chats,
                   clock, cleared, mcp, available_tools, sweep>>

\* The tools route: list_tools is tried again on the client made at start.
\* send_request counts the request; on a socket that never connected send
\* raises, the except clause logs and the cached list is kept.  There is no
\* second connect().
GetTools ==
    /\ mcp.request_id < MaxListings
    /\ mcp' = [mcp EXCEPT !.request_id = @ + 1]
    /\ available_tools' = IF mcp.connected THEN DOMAIN tools ELSE available_tools
    /\ UNCHANGED <<tools, loader, running, conn, framesRead, turn, chat_sessions, chats,
                   clock, cleared, selected_tools, sweep>>

InitOffline ==
    /\ tools = LoadedTools
    /\ InitLoader
    /\ running = FALSE
    /\ conn = [c \in Conns |-> NewConn]
    /\ framesRead = 0
    /\ turn = [NewTurn EXCEPT !.pc = "idle"]
    /\ chat_sessions = NoSessions
    /\ chats = [r \in Reqs |-> NewChat]
    /\ clock = 1
    /\ cleared = [n |-> 0, arg |-> <<>>, found |-> FALSE, at |-> 0]
    /\ mcp = [NewClient EXCEPT !.connected = FALSE]
    /\ available_tools = ConnectMcp(mcp.connected, DOMAIN tools)
    /\ selected_tools = {}
    /\ sweep = NewSweep

NextOffline ==
    \/ SelectTools
    \/ GetTools
    \/ \E r \in Reqs : ChatDispatch(r)
    \/ \E r \in Reqs : ChatStart(r)
    \/ \E r \in Reqs : ChatFails(r)
    \/ \E r \in Reqs : ChatDelta(r)
    \/ \E r \in Reqs : ChatEnd(r)

SpecOffline == InitOffline /\ [][NextOffline]_vars

\* C27: when the RPC server was unreachable at the start of the web server,
\* the list of available tools is and stays empty, and whatever names are
\* selected the requests of every chat turn carry no tool definition and the
\* turn executes no tool; such a turn ends as any other.
C27_NoToolsWhenUnreachable ==
    /\ available_tools = {}
    /\ \A r \in Reqs :
          /\ RequestTools(chats[r].tools) = {}
          /\ \A k \in 1..Len(chats[r].frame.trace) :
                chats[r].frame.trace[k].type
                    \notin {"tool_calls", "tool_execution", "rpc_request", "tool_result"}
          /\ (chats[r].pc = "done" /\ chats[r].message # "") =>
                chats[r].frame.trace[Len(chats[r].frame.trace)].type \in {"end", "error"}

\* C27's case: a turn dispatched while two tools were selected has ended
\* with the end event after the tools route was asked again.
C27_Witness ==
    /\ mcp.request_id > 0
    /\ \E r \in Reqs :
          /\ chats[r].pc = "done"
          /\ chats[r].tools = <<{}>>
          /\ chats[r].frame.answer_content # ""
          /\ chats[r].frame.trace[Len(chats[r].frame.trace)].type = "end"

(***************************************************************************)
(* Part 13.  Claims about the envelopes and the registry (Spec)            *)
(***************************************************************************)

\* The request was decoded and json.loads returned an object.
IsRequestObject(q) == q.kind = "text" /\ q.json = "object"

\* Handling the request raises something else than JSONDecodeError outside
\* the try block of the callable: the document is no object, params is no
\* mapping, or tool_name cannot be a key.
InternalFailure(q) ==
    \/ q.kind = "text" /\ q.json = "nonobject"
    \/ /\ IsRequestObject(q)
       /\ q.method = "execute_tool"
       /\ (q.params = "notdict" \/ q.tool_name = "UNHASHABLE")

\* The request asks for a registered tool and the callable raises.
ToolExecutionFailure(q) ==
    /\ IsRequestObject(q)
    /\ q.method = "execute_tool"
    /\ ~InternalFailure(q)
    /\ q.tool_name \in DOMAIN LoadedTools
    /\ CallTool(q.tool_name, q.args).raised

\* C28: every response the server sends is a result or an error, never both
\* and never neither; its code is -32700 exactly when json.loads rejected the
\* frame, -32601 exactly when the request object names a method that is
\* neither list_tools nor execute_tool, -32602 exactly when execute_tool asks
\* for a name the registry does not hold, and -32603 exactly when the callable
\* raised or the handling failed internally.
C28_ErrorCodesClassifyRequests ==
    \A c \in Conns :
        conn[c].resp # <<>> =>
            LET q == conn[c].req
                p == conn[c].resp[1]
            IN  /\ p.kind \in {"result", "error"}
                /\ p.kind = "result" <=> p.code = 0
                /\ p.code \in {0, -32700, -32601, -32602, -32603}
                /\ p.code = -32700 <=> (q.kind = "text" /\ q.json = "invalid")
                /\ p.code = -32601 <=>
                      (IsRequestObject(q) /\ q.method \notin {"list_tools", "execute_tool"})
                /\ p.code = -32602 <=>
                      /\ IsRequestObject(q)
                      /\ q.method = "execute_tool"
                      /\ ~InternalFailure(q)
                      /\ q.tool_name \notin DOMAIN LoadedTools
                /\ p.code = -32603 <=> (ToolExecutionFailure(q) \/ InternalFailure(q))

\* C28's case: a connection was answered -32700 for text that is no JSON and
\* then -32603 for a call of gcd whose callable raised.
C28_Witness ==
    \E c \in Conns :
        /\ conn[c].resp # <<>>
        /\ conn[c].prev = -32700
        /\ conn[c].resp[1].code = -32603
        /\ conn[c].req.tool_name = "gcd"
        /\ conn[c].invoked = <<"gcd">>

\* C30: after load_tools no request changes the registry, whatever the
\* requests and on whichever connection they arrive: the tool names and
\* every descriptor stay what the load pass produced.
C30_RegistryIsFrozen ==
    /\ DOMAIN tools = DOMAIN LoadedTools
    /\ \A n \in DOMAIN tools : tools[n] = LoadedTools[n]

\* C30's case: both connections have been answered, one of them an
\* execute_tool request for an unknown name and the other a call that ran.
C30_Witness ==
    /\ conn["c1"].writes + conn["c2"].writes = MaxFrames
    /\ \E c, d \in Conns :
          /\ c # d
          /\ conn[c].resp # <<>> /\ conn[c].resp[1].code = -32602
          /\ conn[d].resp # <<>> /\ conn[d].invoked # <<>>

(***************************************************************************)
(* Part 14.  The load pass                                                 *)
(*                                                                         *)
(* SpecLoad : load_tools over a tools directory, then a list_tools request *)
(***************************************************************************)

\* load_tools up to the for statement.  A missing directory is created and
\* the method returns with the registry empty.
LoadToolsStart ==
    /\ loader.pc = "start"
    /\ loader' = IF loader.exists
                 THEN [loader EXCEPT !.pc = "loop", !.pending = loader.directory]
                 ELSE [loader EXCEPT !.pc = "done", !.exists = TRUE]
    /\ UNCHANGED <<tools, running, conn, framesRead, turn, webVars, mcp>>

\* One iteration of the loop over os.listdir, which lists in any order.
LoadToolsFile ==
    /\ loader.pc = "loop"
    /\ \E file \in loader.pending :
          /\ tools' = LoadFile(tools, file)
          /\ loader' = [loader EXCEPT !.pending = @ \ {file},
                                      !.order = Append(@, file)]
    /\ UNCHANGED <<running, conn, framesRead, turn, webVars, mcp>>

\* The loop is through.
LoadToolsReturn ==
    /\ loader.pc = "loop"
    /\ loader.pending = {}
    /\ loader' = [loader EXCEPT !.pc = "done"]
    /\ UNCHANGED <<tools, running, conn, framesRead, turn, webVars, mcp>>

\* A list_tools request is handled by the started server.
ListToolsRequest ==
    /\ loader.pc = "done"
    /\ loader.listed = <<>>
    /\ LET h == HandleRequest(tools, Frame("text", "object", "list_tools", "absent",
                                           None, NoArgs, <<7>>))
       IN  /\ loader' = [loader EXCEPT !.listed = <<h.response.listed>>]
           /\ tools' = h.registry
    /\ UNCHANGED <<running, conn, framesRead, turn, webVars, mcp>>

InitLoad ==
    /\ tools = NoTools
    /\ \E directory \in SUBSET PluginFiles, exists \in BOOLEAN :
          /\ ~exists => directory = {}
          /\ loader = NewLoader(exists, directory)
    /\ running = FALSE
    /\ conn = [c \in Conns |-> NewConn]
    /\ framesRead = 0
    /\ turn = [NewTurn EXCEPT !.pc = "idle"]
    /\ InitWeb
    /\ InitClient

NextLoad ==
    \/ LoadToolsStart
    \/ LoadToolsFile
    \/ LoadToolsReturn
    \/ ListToolsRequest

SpecLoad == InitLoad /\ [][NextLoad]_vars

\* The plugin units of the directory that load, and their tool-tagged
\* callables: the unit and the name the callable is bound to.
LoadableUnits == {f \in loader.directory : f.ext = "py" /\ ~f.dunder /\ f.loadable}

TaggedCallables ==
    UNION {{<<f, m>> : m \in {x \in f.members : x.tagged}} : f \in LoadableUnits}

\* The position of a unit in the order of the load pass.
LoadedAt(f) == CHOOSE k \in 1..Len(loader.order) : loader.order[k] = f

\* A listed descriptor is the plain data of the callable m of unit f.
Describes(d, f, m) ==
    /\ DOMAIN d = {"name", "description", "parameters", "package", "file_path"}
    /\ d.name = m.name
    /\ d.description = m.description
    /\ d.parameters = m.parameters
    /\ d.package = f.stem

\* C29 as stated: after load_tools a list_tools request returns exactly one
\* descriptor for each tool-tagged callable of the loadable plugin units, with
\* its name, description, parameter schema and package and without the
\* callable, and nothing else.
C29_OneDescriptorPerTaggedCallable ==
    loader.listed # <<>> =>
        /\ \A fm \in TaggedCallables :
              Cardinality({d \in loader.listed[1] : Describes(d, fm[1], fm[2])}) = 1
        /\ \A d \in loader.listed[1] :
              \E fm \in TaggedCallables : Describes(d, fm[1], fm[2])

\* C29 amended: after load_tools a list_tools request returns exactly one
\* descriptor for each name that a loadable plugin unit binds to a tool-tagged
\* callable, and nothing else; the descriptor is that of the callable of the
\* unit loaded last among the units that tag the name, with its name,
\* description, parameter schema and package and without the callable.
C29_OneDescriptorPerTaggedName ==
    loader.listed # <<>> =>
        /\ \A fm \in TaggedCallables :
              /\ Cardinality({d \in loader.listed[1] : d.name = fm[2].name}) = 1
              /\ (\A gn \in TaggedCallables :
                     gn[2].name = fm[2].name => LoadedAt(gn[1]) <= LoadedAt(fm[1]))
                  => \E d \in loader.listed[1] : Describes(d, fm[1], fm[2])
        /\ \A d \in loader.listed[1] :
              \E fm \in TaggedCallables : Describes(d, fm[1], fm[2])

\* C29's case: the directory holds every file of the model, two of which tag
\* a function named gcd, and the list has been returned.
C29_Witness ==
    /\ loader.listed # <<>>
    /\ loader.directory = PluginFiles
    /\ Cardinality(loader.listed[1]) = 2
    /\ \E d \in loader.listed[1] : d.name = "gcd" /\ d.package = "extra"

\* The units the pass has been through, and whether it has been through f
\* before g.
Visited == {loader.order[k] : k \in 1..Len(loader.order)}

LoadedBefore(f, g) ==
    \E i, j \in 1..Len(loader.order) :
        i < j /\ loader.order[i] = f /\ loader.order[j] = g

\* C31: the load pass fails soft.  When load_tools has returned, the loop
\* has been through every entry of the directory, wherever the units that
\* cannot be loaded stood in the order, and the registry holds, for every
\* tool-tagged callable of every loadable unit, an entry under its name that
\* comes from a loadable unit.
C31_LoadPassFailsSoft ==
    (loader.pc = "done" /\ loader.directory # {}) =>
        /\ Visited = loader.directory
        /\ Len(loader.order) = Cardinality(loader.directory)
        /\ \A fm \in TaggedCallables :
              /\ fm[2].name \in DOMAIN tools
              /\ \E g \in LoadableUnits : tools[fm[2].name].package = g.stem
        /\ \A n \in DOMAIN tools : \E fm \in TaggedCallables : fm[2].name = n

\* C31's case: the pass has returned, the unit whose import raises stood
\* between two loadable units in the order, and the tools of both are held.
C31_Witness ==
    /\ loader.pc = "done"
    /\ \E f, b, g \in loader.directory :
          /\ f = CalculatorFile /\ g = SystemToolsFile
          /\ b.ext = "py" /\ ~b.dunder /\ ~b.loadable
          /\ LoadedBefore(f, b) /\ LoadedBefore(b, g)
    /\ {"gcd", "system_info"} \subseteq DOMAIN tools

\* The names that more than one loadable unit binds to a tool-tagged callable.
CollidingNames ==
    {fm[2].name : fm \in {x \in TaggedCallables :
                             \E y \in TaggedCallables :
                                 y[1] # x[1] /\ y[2].name = x[2].name}}

\* C32: last-loaded wins.  When load_tools has returned, a name that several
\* loadable units bind to a tool-tagged callable has one entry in the
\* registry, and its callable, description, parameter schema and package are
\* those of the unit the pass went through last among them.
C32_LastLoadedWins ==
    loader.pc = "done" =>
        \A n \in CollidingNames :
            /\ n \in DOMAIN tools
            /\ \E fm \in TaggedCallables :
                  /\ fm[2].name = n
                  /\ \A gn \in TaggedCallables :
                        (gn[2].name = n /\ gn[1] # fm[1]) => LoadedBefore(gn[1], fm[1])
                  /\ tools[n].name = n
                  /\ tools[n].function = <<fm[1].stem, n>>
                  /\ tools[n].description = fm[2].description
                  /\ tools[n].parameters = fm[2].parameters
                  /\ tools[n].package = fm[1].stem

\* C32's case: calculator.py and extra.py both tag gcd, the pass went
\* through extra.py first, and the registry holds the gcd of calculator.py.
C32_Witness ==
    /\ loader.pc = "done"
    /\ "gcd" \in CollidingNames
    /\ \E f, g \in loader.directory :
          f.stem = "extra" /\ g = CalculatorFile /\ LoadedBefore(f, g)
    /\ tools["gcd"].package = "calculator"
    /\ tools["gcd"].parameters = {"a", "b"}

(***************************************************************************)
(* Part 15.  Envelopes on the byte stream                                  *)
(*                                                                         *)
(* SpecWire : one thread calls send_request again and again; the socket    *)
(* is a stream of bytes and each recv(4096) returns what has arrived, at   *)
(* most 4096 bytes of it.                                                  *)
(***************************************************************************)

\* The bufsize of both recv calls.
RecvSize == 4096

\* The lengths in bytes of the envelopes of the model: one that fits a recv
\* and one that does not.
ShortEnvelope == 100

LongEnvelope == 5000

EnvelopeLengths == {ShortEnvelope, LongEnvelope}

\* The bytes of one TCP segment: a recv that returns before the rest of the
\* envelope has arrived returns this many.
SegmentSize == 1460

\* Calls of send_request in SpecWire.
MaxWireCalls == 2

\* request_data.encode() and response.encode(): the bytes of an envelope.
Encode(envelope, length) ==
    <<[env |-> envelope, from |-> 1, to |-> length, of |-> length]>>

PieceLen(p) == p.to - p.from + 1

RECURSIVE Available(_)
Available(bytes) ==
    IF bytes = <<>> THEN 0 ELSE PieceLen(Head(bytes)) + Available(Tail(bytes))

\* The first n bytes of a stream and the bytes after them.
RECURSIVE TakeBytes(_, _)
TakeBytes(bytes, n) ==
    IF n = 0 \/ bytes = <<>> THEN <<>>
    ELSE LET p == Head(bytes) IN
         IF PieceLen(p) <= n
         THEN <<p>> \o TakeBytes(Tail(bytes), n - PieceLen(p))
         ELSE <<[p EXCEPT !.to = p.from + n - 1]>>

RECURSIVE DropBytes(_, _)
DropBytes(bytes, n) ==
    IF n = 0 \/ bytes = <<>> THEN bytes
    ELSE LET p == Head(bytes) IN
         IF PieceLen(p) <= n
         THEN DropBytes(Tail(bytes), n - PieceLen(p))
         ELSE <<[p EXCEPT !.from = p.from + n]>> \o Tail(bytes)

\* The numbers of bytes a recv(4096) on a stream with bytes pending can
\* return: all that is pending up to 4096, or the first segment alone.
RecvSizes(bytes) ==
    LET most == IF Available(bytes) < RecvSize THEN Available(bytes) ELSE RecvSize
    IN  {most} \cup {n \in {SegmentSize} : n < most}

\* The bytes are those of exactly one envelope, from its first to its last.
IsWholeEnvelope(bytes) ==
    /\ Len(bytes) = 1
    /\ bytes[1].from = 1
    /\ bytes[1].to = bytes[1].of

\* data.decode() then json.loads in handle_request: one whole envelope is
\* the request that was encoded; a part of one, or one followed by more
\* bytes, is text json.loads rejects.
DecodeRequest(bytes) ==
    IF IsWholeEnvelope(bytes) THEN bytes[1].env
    ELSE Frame("text", "invalid", None, "absent", None, NoArgs, <<>>)

\* send_request up to its recv: the id is counted, the request is built and
\* written.
WireSend ==
    /\ mcp.wire.pc \in {"idle", "raised"}
    /\ mcp.wire.calls < MaxWireCalls
    /\ \E tool \in CalledTools, length \in EnvelopeLengths :
          mcp' = [mcp EXCEPT
              !.request_id = @ + 1,
              !.wire.up = @ \o Encode(RequestFrame(tool, mcp.request_id + 1), length),
              !.wire.pc = "recv",
              !.wire.calls = @ + 1,
              !.wire.got = <<>>,
              !.wire.returned = <<>>]
    /\ UNCHANGED <<tools, loader, running, conn, framesRead, turn, webVars>>

\* handle_client: one pass of the loop body.  recv returns bytes,
\* handle_request is applied to their text and the response is written.
WireServe ==
    /\ mcp.wire.up # <<>>
    /\ \E n \in RecvSizes(mcp.wire.up), length \in EnvelopeLengths :
          LET data == TakeBytes(mcp.wire.up, n)
              h    == HandleRequest(tools, DecodeRequest(data))
          IN  /\ h.response.kind = "error" => length = ShortEnvelope
              /\ mcp' = [mcp EXCEPT
                     !.wire.up = DropBytes(@, n),
                     !.wire.handled = data,
                     !.wire.down = @ \o Encode(h.response, length)]
              /\ tools' = h.registry
    /\ UNCHANGED <<loader, running, conn, framesRead, turn, webVars>>

\* send_request from its recv on: the bytes recv returns are decoded and
\* parsed; json.loads raises on anything but one whole envelope.
WireRecv ==
    /\ mcp.wire.pc = "recv"
    /\ mcp.wire.down # <<>>
    /\ \E n \in RecvSizes(mcp.wire.down) :
          LET data == TakeBytes(mcp.wire.down, n) IN
          mcp' = [mcp EXCEPT
              !.wire.down = DropBytes(@, n),
              !.wire.got = data,
              !.wire.returned = IF IsWholeEnvelope(data) THEN <<data[1].env>> ELSE <<>>,
              !.wire.pc = IF IsWholeEnvelope(data) THEN "idle" ELSE "raised"]
    /\ UNCHANGED <<tools, loader, running, conn, framesRead, turn, webVars>>

InitWire == InitClientThreads

NextWire ==
    \/ WireSend
    \/ WireServe
    \/ WireRecv

SpecWire == InitWire /\ [][NextWire]_vars

\* C33: every envelope is transferred as one complete frame.  The bytes
\* handle_request is applied to are exactly one whole request envelope; the
\* bytes send_request decodes are exactly one whole response envelope, the
\* one of the request it sent; and when send_request has returned no byte of
\* a response is left on the socket for the next call.
C33_WholeFrames ==
    /\ mcp.wire.handled # <<>> => IsWholeEnvelope(mcp.wire.handled)
    /\ mcp.wire.got # <<>> =>
          /\ IsWholeEnvelope(mcp.wire.got)
          /\ mcp.wire.got[1].env.id = <<mcp.request_id>>
    /\ (mcp.wire.pc # "recv" /\ mcp.wire.up = <<>>) => mcp.wire.down = <<>>

(***************************************************************************)
(* Part 16.  The non-streaming turn                                        *)
(*                                                                         *)
(* SpecSync : get_chat_response and handle_tool_calls for one chat request *)
(***************************************************************************)

\* The tools argument of the turn: None, an empty list, or definitions.
SyncTools == {<<>>, <<{}>>, <<{"gcd", "system_info"}>>}

\* A tool call of a completion: its id, the name of the function and the
\* text of its arguments.
SyncCall(id, name, arguments) == [id |-> id, name |-> name, arguments |-> arguments]

SyncCalls ==
    {SyncCall("x", "gcd", ArgsText), SyncCall("w", "gcd", ArgsHead),
     SyncCall("v", "gcd", "{}"), SyncCall("y", "system_info", "{}"),
     SyncCall("z", "nope", "{}")}

\* The tool_calls lists of the completions explored.
SyncBatches ==
    {<<>>} \cup {<<c>> : c \in SyncCalls}
    \cup {<<c, d>> : c, d \in SyncCalls}

\* What chat.completions.create returns for a request: message.content and
\* message.tool_calls.  The provider returns tool calls only for a request
\* that carries tool definitions.
Completions(offered) ==
    {[content |-> c, tool_calls |-> b] :
        c \in {"a", "b"}, b \in IF offered # {} THEN SyncBatches ELSE {<<>>}}

\* The frame of get_chat_response(messages, model, tools).
\*   pc       : "start", "handle" (in the loop of handle_tool_calls),
\*              "done" (returned)
\*   tools    : the tools argument
\*   requests : the tool definitions each chat.completions.create carried
\*   response : the completion the last request returned
\*   i        : the position of the loop over tool_calls
\*   requested : the tool calls of the completions so far
\*   executed : the names sent to execute_tool
\*   fed      : the tool messages appended: tool_call_id, and whether the
\*              content is the result or the text of an exception
\*   returned : <<the value returned>>
NewSyncTurn(definitions) ==
    [pc |-> "start", tools |-> definitions, requests |-> <<>>,
     response |-> [content |-> "", tool_calls |-> <<>>], i |-> 0,
     requested |-> <<>>, executed |-> <<>>, fed |-> <<>>, returned |-> <<>>]

\* get_chat_response: the request, and the return of the content when the
\* completion carries no tool call.
SyncRequest ==
    /\ turn.pc = "start"
    /\ \E r \in Completions(RequestTools(turn.tools)) :
          turn' = [turn EXCEPT
              !.requests = Append(@, RequestTools(turn.tools)),
              !.response = r,
              !.requested = @ \o r.tool_calls,
              !.pc = IF r.tool_calls # <<>> THEN "handle" ELSE "done",
              !.returned = IF r.tool_calls # <<>> THEN <<>> ELSE <<r.content>>]
    /\ UNCHANGED <<tools, loader, running, conn, framesRead, webVars, mcp>>

\* handle_tool_calls: one pass of `for tool_call in tool_calls`.  The
\* arguments are parsed and the call is sent to execute_tool; its result, or
\* the message of the exception json.loads or execute_tool raised, is
\* appended as a tool message.
SyncExecute ==
    /\ turn.pc = "handle"
    /\ turn.i < Len(turn.response.tool_calls)
    /\ LET call   == turn.response.tool_calls[turn.i + 1]
           parsed == JsonLoads(call.arguments)
           h      == HandleRequest(tools, Frame("text", "object", "execute_tool", "dict",
                                                call.name, parsed.args, <<1>>))
           ok     == parsed.ok /\ h.response.kind = "result"
       IN  /\ turn' = [turn EXCEPT
                  !.executed = IF parsed.ok THEN Append(@, call.name) ELSE @,
                  !.fed = Append(@, [tool_call_id |-> call.id,
                                     content |-> IF ok THEN "result" ELSE "error"]),
                  !.i = @ + 1]
           /\ tools' = IF parsed.ok THEN h.registry ELSE tools
    /\ UNCHANGED <<loader, running, conn, framesRead, webVars, mcp>>

\* handle_tool_calls after the loop: the final request is made with model
\* and messages only, and the content of its completion is returned.
SyncFinal ==
    /\ turn.pc = "handle"
    /\ turn.i = Len(turn.response.tool_calls)
    /\ \E r \in Completions({}) :
          turn' = [turn EXCEPT !.requests = Append(@, {}),
                               !.response = r,
                               !.requested = @ \o r.tool_calls,
                               !.pc = "done",
                               !.returned = <<r.content>>]
    /\ UNCHANGED <<tools, loader, running, conn, framesRead, webVars, mcp>>

InitSync ==
    /\ tools = LoadedTools
    /\ InitLoader
    /\ running = TRUE
    /\ conn = [c \in Conns |-> NewConn]
    /\ framesRead = 0
    /\ \E definitions \in SyncTools : turn = NewSyncTurn(definitions)
    /\ InitWeb
    /\ InitClient

NextSync ==
    \/ SyncRequest
    \/ SyncExecute
    \/ SyncFinal

SpecSync == InitSync /\ [][NextSync]_vars

\* C35: in non-streaming mode as in streaming mode the turn repeats model
\* round trips as long as the model requests tools.  Every request of the
\* turn offers the model the tools the first request offered, so that the
\* turn ends on the model's own answer without tool calls, and when the turn
\* has returned every tool call of every completion has been executed and
\* its result fed back.
C35_SyncTurnRepeats ==
    /\ \A k \in 1..Len(turn.requests) : turn.requests[k] = turn.requests[1]
    /\ turn.pc = "done" =>
          /\ turn.response.tool_calls = <<>>
          /\ Len(turn.fed) = Len(turn.requested)
          /\ \A k \in 1..Len(turn.fed) :
                turn.fed[k].tool_call_id = turn.requested[k].id

(***************************************************************************)
(* Part 17.  The tools of a turn and the tools it executes                 *)
(*                                                                         *)
(* SpecTurnTools : a streaming turn called with no tools, with the         *)
(* definition of gcd alone, or with the definitions of both listed tools   *)
(***************************************************************************)

\* The tools argument chat() passes: None when nothing is selected, else
\* the definitions of the selected names that are listed.
TurnTools ==
    {ChatTools(selected, DOMAIN LoadedTools) :
        selected \in {{}, {"gcd"}, {"gcd", "system_info"}}}

\* The names the model puts into a tool call: a listed tool, offered to it
\* or not, and a name of no tool.
NamedFragments ==
    {Fragment(0, "x", "gcd", ArgsText), Fragment(0, "x", "system_info", "{}"),
     Fragment(1, "y", "system_info", "{}"), Fragment(0, "x", "nope", "{}")}

\* The chunks of the streams explored.  The provider sends tool calls only
\* in answer to a request that carried tool definitions.
NamedDeltas(definitions) ==
    {Delta(FALSE, <<>>, <<"a">>, <<>>)}
    \cup IF RequestTools(definitions) # {}
         THEN {Delta(FALSE, <<>>, <<>>, <<f>>) : f \in NamedFragments}
         ELSE {}

\* The stream delivers one more chunk.
StreamDeltaNamed ==
    /\ turn.pc = "stream"
    /\ turn.deltas < MaxLiveDeltas
    /\ \E d \in NamedDeltas(turn.tools) :
          turn' = [ProcessDelta(turn, d) EXCEPT !.deltas = @ + 1]
    /\ UNCHANGED <<tools, loader, running, conn, framesRead, webVars, mcp>>

InitTurnTools ==
    /\ tools = LoadedTools
    /\ InitLoader
    /\ running = TRUE
    /\ conn = [c \in Conns |-> NewConn]
    /\ framesRead = 0
    /\ \E definitions \in TurnTools : turn = [NewTurn EXCEPT !.tools = definitions]
    /\ InitWeb
    /\ InitClient

NextTurnTools ==
    \/ TurnStart
    \/ StreamDeltaNamed
    \/ StreamEndsWithCalls
    \/ StreamEndsEmpty
    \/ ExecCall
    \/ ExecRpc
    \/ ExecRpcRaises
    \/ FollowUp

SpecTurnTools == InitTurnTools /\ [][NextTurnTools]_vars

\* C37: every tool the turn sends to execute_tool is one of the tools
\* offered to the model for the turn; a name of the model that is not among
\* the turn's tool definitions is never sent.
C37_OnlyOfferedToolsExecuted ==
    \A k \in 1..Len(turn.trace) :
        turn.trace[k].type = "rpc_request"
            => turn.trace[k].name \in RequestTools(turn.tools)

====
